---- MODULE Spec2Model ----
(***************************************************************************)
(* Model of the bounded-rate parallel document fetcher of paper_patterns:  *)
(*   - RateLimiter.__call__            (src/src/api/rate_limiter.py)       *)
(*   - NCBIClient.safe_call            (src/src/api/ncbi_client.py)        *)
(*   - safe_api_call of the per-DOI collector                              *)
(*                                     (src/src/collectors/paper_collector.py) *)
(*   - PMCDownloader.fetch_pmcids_from_pmids / download_batch_parallel     *)
(*                                     (src/src/collectors/pmc_downloader.py) *)
(* Each subsystem has its own specification over the shared variables; the *)
(* variables a specification does not use stay at their idle value.        *)
(***************************************************************************)
EXTENDS Integers, Sequences, FiniteSets, TLC

VARIABLES
    \* ---- RateLimiter ----
    max_requests_per_sec,  \* RateLimiter.max_requests_per_sec (constructor argument)
    semaphore,             \* free slots of RateLimiter.semaphore
    last_request_time,     \* RateLimiter.last_request_time[0]
    now,                   \* time.time(), in ticks
    rl_pc,                 \* position of each caller inside __call__
    rl_wake,               \* end of each caller's time.sleep(wait_time)
    rl_seen,               \* the last_request_time each caller read at line 39
    rl_out,                \* how each caller's wrapped call ended
    dispatches,            \* the values written to last_request_time, in order
    \* ---- NCBIClient.safe_call / safe_api_call ----
    attempt,               \* loop variable `attempt` of each caller
    r_pc,                  \* position of each caller in the retry loop
    r_hist,                \* outcome of every attempt made so far
    r_slept,               \* arguments of the time.sleep calls of the except branch
    r_log,                 \* log lines emitted by the except branch
    r_ret,                 \* the value returned to the caller
    \* ---- PMCDownloader ----
    id_list, batch_size, num_threads,   \* arguments of download_batch_parallel
    futures,               \* state and result of the future of each batch
    drained,               \* futures already yielded by as_completed
    retrieved_documents, failed_pmids, multiple_pmcids,  \* running totals
    progress,              \* the arguments of every progress_callback invocation
    d_pc,                  \* position of the coordinating thread
    checkpoint_interval,   \* args.checkpoint_interval of download_full_texts.py
    exit_code,             \* what main returns; -1 while it runs
    \* ---- the output directory ----
    disk,                  \* the files that exist, each with its pickled content
    \* ---- CheckpointManager, called on its own ----
    disk0,                 \* the directory as the manager found it
    cm_saved,              \* what the last save_checkpoint of each index was given
    cm_final,              \* what the last save_final_results was given
    cm_loaded,             \* index and result of a load_checkpoint just made
    \* ---- one call of fetch_pmcids_from_pmids ----
    f_batch,               \* pmid_batch
    f_resp,                \* what the service answers during this call
    f_acc,                 \* failed_pmids, multiple_pmcids_map, retrieved_documents
    f_i,                   \* articles of the loop of line 84 already processed
    f_pc,                  \* position inside the call
    \* ---- one call of parse_pmc_xml and what its caller does with the result ----
    x_content,             \* xml_content
    x_pmcid,               \* pmcid
    x_doc,                 \* what parse_pmc_xml returned
    x_acc,                 \* the collections of the calling fetch_pmcids_from_pmids
    x_pc,                  \* position
    \* ---- the per-DOI collector (paper_collector.py under collect_papers.py) ----
    dois,                  \* the DOI list of the run
    cache_file,            \* the DOIs in processed_dois.json
    processed_dois,        \* the set loaded from the cache and added to
    c_futures,             \* per submitted DOI: pending, or done with its result
    c_drained,             \* futures the loop of line 544 has taken
    c_fetched,             \* normalized DOIs handed to get_paper_data_from_doi, all runs
    c_saved,               \* normalized DOIs whose paper file was written, all runs
    c_cache0,              \* the cache file as the current run found it
    c_run,                 \* number of the current run
    c_pc,                  \* position of main
    c_exit,                \* what collect_papers.main returns; -1 while it runs
    \* ---- worker threads sharing the rate limiter ----
    pool_slots,            \* max_requests_per_sec, the size of the semaphore
    pool_sem,              \* free slots of the semaphore
    pool_threads,          \* num_threads
    pool_thread,           \* per pool thread: its batch, call and position
    pool_future,           \* per batch: pending, running, done
    pool_drained,          \* futures the coordinator has taken
    pool_pc                \* position of the coordinating thread

rlVars == <<max_requests_per_sec, semaphore, last_request_time, now, rl_pc,
            rl_wake, rl_seen, rl_out, dispatches>>
retryVars == <<attempt, r_pc, r_hist, r_slept, r_log, r_ret>>
dlVars == <<id_list, batch_size, num_threads, futures, drained,
            retrieved_documents, failed_pmids, multiple_pmcids, progress, d_pc,
            checkpoint_interval, exit_code>>
cmVars == <<disk0, cm_saved, cm_final, cm_loaded>>
xmlVars == <<x_content, x_pmcid, x_doc, x_acc, x_pc>>
colVars == <<dois, cache_file, processed_dois, c_futures, c_drained, c_fetched,
             c_saved, c_cache0, c_run, c_pc, c_exit>>
poolVars == <<pool_slots, pool_sem, pool_threads, pool_thread, pool_future,
              pool_drained, pool_pc>>
laterVars == <<xmlVars, colVars, poolVars>>
fetchVars == <<f_batch, f_resp, f_acc, f_i, f_pc>>
vars == <<rlVars, retryVars, dlVars, disk, cmVars, fetchVars, laterVars>>

\* ---------------------------------------------------------------- bounds
NumCallers == 3          \* M: concurrent callers of one RateLimiter
MaxRate == 2             \* largest max_requests_per_sec tried
TicksPerInterval == 2    \* clock ticks in 1/max_requests_per_sec seconds
MaxTime == 6             \* the clock stops here

Callers == 1..NumCallers
Max(a, b) == IF a >= b THEN a ELSE b
Range(s) == {s[k] : k \in DOMAIN s}
None == "None"

\* Idle values of the parts a specification does not use.
RLIdle ==
    /\ max_requests_per_sec = 0 /\ semaphore = 0 /\ last_request_time = 0
    /\ now = 0 /\ rl_pc = <<>> /\ rl_wake = <<>> /\ rl_seen = <<>>
    /\ rl_out = <<>> /\ dispatches = <<>>
RetryIdle ==
    /\ attempt = <<>> /\ r_pc = <<>> /\ r_hist = <<>> /\ r_slept = <<>>
    /\ r_log = <<>> /\ r_ret = <<>>
DLIdle ==
    /\ id_list = <<>> /\ batch_size = 0 /\ num_threads = 0 /\ futures = <<>>
    /\ drained = {} /\ retrieved_documents = <<>> /\ failed_pmids = <<>>
    /\ multiple_pmcids = <<>> /\ progress = <<>> /\ d_pc = "idle"
    /\ checkpoint_interval = 0 /\ exit_code = -1
DiskIdle == disk = <<>>
CMIdle == disk0 = <<>> /\ cm_saved = <<>> /\ cm_final = <<>> /\ cm_loaded = <<>>
FetchIdle ==
    /\ f_batch = <<>> /\ f_resp = <<>> /\ f_acc = <<>> /\ f_i = 0 /\ f_pc = "idle"
XmlIdle ==
    /\ x_content = <<>> /\ x_pmcid = "" /\ x_doc = <<>> /\ x_acc = <<>> /\ x_pc = "idle"
ColIdle ==
    /\ dois = <<>> /\ cache_file = {} /\ processed_dois = {} /\ c_futures = <<>>
    /\ c_drained = {} /\ c_fetched = <<>> /\ c_saved = {} /\ c_cache0 = {}
    /\ c_run = 0 /\ c_pc = "idle" /\ c_exit = -1
PoolIdle ==
    /\ pool_slots = 0 /\ pool_sem = 0 /\ pool_threads = 0 /\ pool_thread = <<>>
    /\ pool_future = <<>> /\ pool_drained = {} /\ pool_pc = "idle"
LaterIdle == XmlIdle /\ ColIdle /\ PoolIdle

(***************************************************************************)
(* RateLimiter (rate_limiter.py).  Time is counted in ticks of             *)
(* 1/(max_requests_per_sec * TicksPerInterval) seconds, so the minimum     *)
(* interval 1.0 / max_requests_per_sec of line 40 is TicksPerInterval.     *)
(***************************************************************************)
MinInterval == TicksPerInterval

\* line 40: wait_time = max(0, 1.0 / self.max_requests_per_sec - elapsed)
WaitTime(elapsed) == Max(0, MinInterval - elapsed)

\* __init__, lines 21-23; time.time() is far beyond one interval after 0.
InitRL ==
    /\ max_requests_per_sec \in 1..MaxRate
    /\ semaphore = max_requests_per_sec
    /\ last_request_time = 0
    /\ now = MinInterval
    /\ rl_pc = [c \in Callers |-> "start"]
    /\ rl_wake = [c \in Callers |-> 0]
    /\ rl_seen = [c \in Callers |-> 0]
    /\ rl_out = [c \in Callers |-> "none"]
    /\ dispatches = <<>>
    /\ RetryIdle /\ DLIdle /\ DiskIdle /\ CMIdle /\ FetchIdle /\ LaterIdle

\* line 37: with self.semaphore (acquire, blocking while no slot is free)
Acquire(c) ==
    /\ rl_pc[c] = "start"
    /\ semaphore > 0
    /\ semaphore' = semaphore - 1
    /\ rl_pc' = [rl_pc EXCEPT ![c] = "acquired"]
    /\ UNCHANGED <<max_requests_per_sec, last_request_time, now, rl_wake,
                   rl_seen, rl_out, dispatches>>
    /\ UNCHANGED <<retryVars, dlVars, disk, cmVars, fetchVars, laterVars>>

\* lines 39-42: read last_request_time, compute wait_time
ReadElapsed(c) ==
    /\ rl_pc[c] = "acquired"
    /\ LET elapsed == now - last_request_time
           wait_time == WaitTime(elapsed)
       IN /\ rl_seen' = [rl_seen EXCEPT ![c] = last_request_time]
          /\ rl_wake' = [rl_wake EXCEPT ![c] = now + wait_time]
          /\ rl_pc' = [rl_pc EXCEPT ![c] =
                          IF wait_time > 0 THEN "sleeping" ELSE "stamp"]
    /\ UNCHANGED <<max_requests_per_sec, semaphore, last_request_time, now,
                   rl_out, dispatches>>
    /\ UNCHANGED <<retryVars, dlVars, disk, cmVars, fetchVars, laterVars>>

\* line 43: time.sleep(wait_time) returns once wait_time has passed
WakeUp(c) ==
    /\ rl_pc[c] = "sleeping"
    /\ now >= rl_wake[c]
    /\ rl_pc' = [rl_pc EXCEPT ![c] = "stamp"]
    /\ UNCHANGED <<max_requests_per_sec, semaphore, last_request_time, now,
                   rl_wake, rl_seen, rl_out, dispatches>>
    /\ UNCHANGED <<retryVars, dlVars, disk, cmVars, fetchVars, laterVars>>

\* line 45: self.last_request_time[0] = time.time(), then func is entered
Stamp(c) ==
    /\ rl_pc[c] = "stamp"
    /\ last_request_time' = now
    /\ dispatches' = Append(dispatches, now)
    /\ rl_pc' = [rl_pc EXCEPT ![c] = "calling"]
    /\ UNCHANGED <<max_requests_per_sec, semaphore, now, rl_wake, rl_seen,
                   rl_out>>
    /\ UNCHANGED <<retryVars, dlVars, disk, cmVars, fetchVars, laterVars>>

\* __exit__ of `with self.semaphore`: BoundedSemaphore.release()
Release(s) == s + 1

\* line 46: func returns; the with block is left
CallReturns(c) ==
    /\ rl_pc[c] = "calling"
    /\ semaphore' = Release(semaphore)
    /\ rl_pc' = [rl_pc EXCEPT ![c] = "done"]
    /\ rl_out' = [rl_out EXCEPT ![c] = "returned"]
    /\ UNCHANGED <<max_requests_per_sec, last_request_time, now, rl_wake,
                   rl_seen, dispatches>>
    /\ UNCHANGED <<retryVars, dlVars, disk, cmVars, fetchVars, laterVars>>

\* An acquire()/release() pair without try/finally: an exception keeps the slot.
CallRaisesKeepsSlot(c) ==
    /\ rl_pc[c] = "calling"
    /\ rl_pc' = [rl_pc EXCEPT ![c] = "done"]
    /\ rl_out' = [rl_out EXCEPT ![c] = "raised"]
    /\ UNCHANGED <<max_requests_per_sec, semaphore, last_request_time, now,
                   rl_wake, rl_seen, dispatches>>
    /\ UNCHANGED <<retryVars, dlVars, disk, cmVars, fetchVars, laterVars>>

\* line 46: func raises; the with block is left by the exception
CallRaises(c) ==
    /\ rl_pc[c] = "calling"
    /\ semaphore' = Release(semaphore)
    /\ rl_pc' = [rl_pc EXCEPT ![c] = "done"]
    /\ rl_out' = [rl_out EXCEPT ![c] = "raised"]
    /\ UNCHANGED <<max_requests_per_sec, last_request_time, now, rl_wake,
                   rl_seen, dispatches>>
    /\ UNCHANGED <<retryVars, dlVars, disk, cmVars, fetchVars, laterVars>>

\* the wall clock advances
Tick ==
    /\ now < MaxTime
    /\ now' = now + 1
    /\ UNCHANGED <<max_requests_per_sec, semaphore, last_request_time, rl_pc,
                   rl_wake, rl_seen, rl_out, dispatches>>
    /\ UNCHANGED <<retryVars, dlVars, disk, cmVars, fetchVars, laterVars>>

NextRL ==
    \/ \E c \in Callers : Acquire(c)
    \/ \E c \in Callers : ReadElapsed(c)
    \/ \E c \in Callers : WakeUp(c)
    \/ \E c \in Callers : Stamp(c)
    \/ \E c \in Callers : CallReturns(c)
    \/ \E c \in Callers : CallRaises(c)
    \/ Tick

SpecRateLimiter == InitRL /\ [][NextRL]_vars

\* Callers that hold a slot: inside the with block of line 37.
InWith == {c \in Callers : rl_pc[c] \in {"acquired", "sleeping", "stamp", "calling"}}
\* Callers inside the wrapped call func(*args, **kwargs).
InCall == {c \in Callers : rl_pc[c] = "calling"}
\* Callers that have read last_request_time and not yet written it.
BetweenReadAndWrite == {c \in Callers : rl_pc[c] \in {"sleeping", "stamp"}}
SlotsHeld == max_requests_per_sec - semaphore

\* C4: no two dispatches (values written to last_request_time right before
\* the wrapped call) are closer together than 1/N seconds, so M calls take
\* at least (M-1)/N seconds from the first dispatch to the last.
C4_DispatchSpacing ==
    /\ \A i, j \in DOMAIN dispatches :
          i < j => dispatches[j] - dispatches[i] >= MinInterval
    /\ Len(dispatches) = NumCallers =>
          dispatches[NumCallers] - dispatches[1] >= (NumCallers - 1) * MinInterval

\* C5: read last_request_time / sleep / write last_request_time is a
\* critical section: never two callers between their read and their write,
\* and no two callers compute their wait from the same last-dispatch value.
C5_CriticalSection ==
    /\ Cardinality(BetweenReadAndWrite) <= 1
    /\ \A c, d \in Callers :
          (c # d /\ rl_pc[c] \in {"sleeping", "stamp", "calling", "done"}
                 /\ rl_pc[d] \in {"sleeping", "stamp", "calling", "done"})
             => rl_seen[c] # rl_seen[d]

\* C6 as stated: the number of callers inside the wrapped call is at most N
\* and EQUALS the number of slots held.
C6_InCallEqualsSlotsHeld ==
    /\ Cardinality(InCall) <= max_requests_per_sec
    /\ Cardinality(InCall) = SlotsHeld

\* C6 (amended): the callers inside the wrapped call are at most the slots
\* held, the slots held are exactly the callers inside the with block and
\* at most N, and once every call has finished, by return or by exception,
\* all N slots are free again.
C6_SlotAccounting ==
    /\ Cardinality(InCall) <= SlotsHeld
    /\ SlotsHeld = Cardinality(InWith)
    /\ SlotsHeld <= max_requests_per_sec
    /\ semaphore >= 0
    /\ (\A c \in Callers : rl_pc[c] = "done") => semaphore = max_requests_per_sec

\* C6 witness: every call has finished, one of them by an exception, another
\* by returning.
C6_Witness ==
    /\ \A c \in Callers : rl_pc[c] = "done"
    /\ \E c \in Callers : rl_out[c] = "raised"
    /\ \E c \in Callers : rl_out[c] = "returned"
    /\ semaphore = max_requests_per_sec

(***************************************************************************)
(* NCBIClient.safe_call (ncbi_client.py lines 36-57).  Each worker thread  *)
(* runs one safe_call; the rate limiter forwards the outcome of the        *)
(* wrapped operation (its return value or its exception) unchanged.        *)
(***************************************************************************)
NumClientThreads == 3    \* threads inside NCBIClient.safe_call at the same time
NumCollectorThreads == 2 \* threads inside safe_api_call at the same time

ClientThreads == 1..NumClientThreads
CollectorThreads == 1..NumCollectorThreads
RETRY_ATTEMPTS == 3      \* NCBIConfig.RETRY_ATTEMPTS
RETRY_DELAY == 2         \* NCBIConfig.RETRY_DELAY, seconds

\* The value the wrapped operation returns when its k-th invocation succeeds.
Result(k) == <<"result", k>>

\* Every thread is about to enter the retry loop.
InitRetry(threads) ==
    /\ attempt = [w \in threads |-> 0]
    /\ r_pc = [w \in threads |-> "try"]
    /\ r_hist = [w \in threads |-> <<>>]
    /\ r_slept = [w \in threads |-> <<>>]
    /\ r_log = [w \in threads |-> <<>>]
    /\ r_ret = [w \in threads |-> "unset"]
    /\ RLIdle /\ DLIdle /\ DiskIdle /\ CMIdle /\ FetchIdle /\ LaterIdle

InitSafeCall == InitRetry(ClientThreads)

\* Off by one: the last attempt is treated as one more to retry.
SafeCallRetriesOffByOne(att) == att < RETRY_ATTEMPTS
\* line 52: if attempt < self.retry_attempts - 1
SafeCallRetries(att) == att < RETRY_ATTEMPTS - 1

\* lines 49-50: the attempt succeeds, its result is returned
SafeCallSucceeds(w) ==
    /\ r_pc[w] = "try"
    /\ attempt[w] < RETRY_ATTEMPTS
    /\ r_hist' = [r_hist EXCEPT ![w] = Append(@, "ok")]
    /\ r_ret' = [r_ret EXCEPT ![w] = Result(attempt[w] + 1)]
    /\ r_pc' = [r_pc EXCEPT ![w] = "returned"]
    /\ UNCHANGED <<attempt, r_slept, r_log>>
    /\ UNCHANGED <<rlVars, dlVars, disk, cmVars, fetchVars, laterVars>>

\* lines 51-57: the attempt raises; retry after a sleep, or give up with None
SafeCallFails(w) ==
    /\ r_pc[w] = "try"
    /\ attempt[w] < RETRY_ATTEMPTS
    /\ r_hist' = [r_hist EXCEPT ![w] = Append(@, "exc")]
    /\ IF SafeCallRetries(attempt[w])
       THEN /\ r_log' = [r_log EXCEPT ![w] = Append(@, "Retrying")]
            /\ r_slept' = [r_slept EXCEPT ![w] = Append(@, RETRY_DELAY)]
            /\ r_pc' = [r_pc EXCEPT ![w] = "sleeping"]
            /\ UNCHANGED r_ret
       ELSE /\ r_log' = [r_log EXCEPT ![w] = Append(@, "Failed")]
            /\ r_ret' = [r_ret EXCEPT ![w] = None]
            /\ r_pc' = [r_pc EXCEPT ![w] = "returned"]
            /\ UNCHANGED r_slept
    /\ UNCHANGED attempt
    /\ UNCHANGED <<rlVars, dlVars, disk, cmVars, fetchVars, laterVars>>

\* line 54 ends, line 48: the next iteration of `for attempt in range(...)`;
\* a loop that runs out falls off the end of the function (returns None)
SafeCallNextAttempt(w) ==
    /\ r_pc[w] = "sleeping"
    /\ attempt' = [attempt EXCEPT ![w] = @ + 1]
    /\ IF attempt[w] + 1 < RETRY_ATTEMPTS
       THEN r_pc' = [r_pc EXCEPT ![w] = "try"] /\ UNCHANGED r_ret
       ELSE /\ r_pc' = [r_pc EXCEPT ![w] = "returned"]
            /\ r_ret' = [r_ret EXCEPT ![w] = None]
    /\ UNCHANGED <<r_hist, r_slept, r_log>>
    /\ UNCHANGED <<rlVars, dlVars, disk, cmVars, fetchVars, laterVars>>

NextSafeCall ==
    \/ \E w \in ClientThreads : SafeCallSucceeds(w)
    \/ \E w \in ClientThreads : SafeCallFails(w)
    \/ \E w \in ClientThreads : SafeCallNextAttempt(w)

SpecSafeCall == InitSafeCall /\ [][NextSafeCall]_vars

\* Number of failed attempts in a history.
Failures(h) == Cardinality({k \in DOMAIN h : h[k] # "ok"})

\* C7: safe_call invokes the operation at most retry_attempts times, returns
\* the result of the first attempt that succeeds without further attempts,
\* sleeps retry_delay after each failed attempt except the last, and after
\* retry_attempts failed attempts returns None.
C7_SafeCallContract ==
    \A w \in ClientThreads :
       LET h == r_hist[w]
           n == Len(h)
       IN /\ n <= RETRY_ATTEMPTS
          /\ r_pc[w] \in {"try", "sleeping", "returned"}
          /\ \A k \in 1..(n - 1) : h[k] = "exc"
          /\ \A k \in DOMAIN r_slept[w] : r_slept[w][k] = RETRY_DELAY
          /\ r_pc[w] = "try" => Len(r_slept[w]) = n
          /\ r_pc[w] = "sleeping" => Len(r_slept[w]) = n /\ n < RETRY_ATTEMPTS
          /\ r_pc[w] = "returned" =>
                /\ n >= 1
                /\ Len(r_slept[w]) = n - 1
                /\ h[n] = "ok" => r_ret[w] = Result(n)
                /\ h[n] = "exc" => r_ret[w] = None /\ n = RETRY_ATTEMPTS

\* C7 witness: one worker got the result of its second attempt after one
\* sleep, another got None after three failures and two sleeps.
C7_Witness ==
    \E w, v \in ClientThreads :
       /\ r_pc[w] = "returned" /\ r_hist[w] = <<"exc", "ok">>
       /\ r_ret[w] = Result(2) /\ r_slept[w] = <<RETRY_DELAY>>
       /\ r_pc[v] = "returned" /\ r_hist[v] = <<"exc", "exc", "exc">>
       /\ r_ret[v] = None /\ r_slept[v] = <<RETRY_DELAY, RETRY_DELAY>>

(***************************************************************************)
(* safe_api_call of the per-DOI collector (paper_collector.py lines        *)
(* 74-109).  The wrapped call runs inside `with semaphore` (lines 89-96,   *)
(* the same code as RateLimiter.__call__ above); its exception leaves the  *)
(* with block and reaches the except clause of line 97.                    *)
(***************************************************************************)
tries == 3               \* paper_collector.py line 86
FixedDelay == 2          \* paper_collector.py line 106: time.sleep(2)
BackoffStep == 5         \* paper_collector.py line 101: 5 * (attempt + 1)

\* str(e) of the exceptions tried.
Messages == {"HTTP Error 429", "Too Many Requests", "timed out"}
\* '429' in str(e)
Has429(msg) == msg \in {"HTTP Error 429"}
\* 'Too Many Requests' in str(e)
HasTooManyRequests(msg) == msg \in {"Too Many Requests"}

\* Exponential instead of linear: 5, 25 seconds.
ExponentialBackoff(att, msg) ==
    IF Has429(msg) \/ HasTooManyRequests(msg)
    THEN IF att = 0 THEN BackoffStep ELSE BackoffStep * BackoffStep
    ELSE FixedDelay
\* lines 100-106: the delay before the next attempt
ApiCallDelay(att, msg) ==
    IF Has429(msg) \/ HasTooManyRequests(msg)
    THEN BackoffStep * (att + 1)
    ELSE FixedDelay

\* The final-failure line logged for every exception.
AlwaysFailedLine(att, msg) == "Failed"
\* lines 98-108: the log line of the except clause
ApiCallLogLine(att, msg) ==
    IF att < tries - 1
    THEN IF Has429(msg) \/ HasTooManyRequests(msg)
         THEN "Rate limit hit" ELSE "Retrying"
    ELSE "Failed"

InitApiCall == InitRetry(CollectorThreads)

\* lines 88-96: the attempt succeeds, its result is returned
ApiCallSucceeds(w) ==
    /\ r_pc[w] = "try"
    /\ attempt[w] < tries
    /\ r_hist' = [r_hist EXCEPT ![w] = Append(@, "ok")]
    /\ r_ret' = [r_ret EXCEPT ![w] = Result(attempt[w] + 1)]
    /\ r_pc' = [r_pc EXCEPT ![w] = "returned"]
    /\ UNCHANGED <<attempt, r_slept, r_log>>
    /\ UNCHANGED <<rlVars, dlVars, disk, cmVars, fetchVars, laterVars>>

\* lines 97-109: the attempt raises with message msg
ApiCallFails(w) ==
    /\ r_pc[w] = "try"
    /\ attempt[w] < tries
    /\ \E msg \in Messages :
          /\ r_hist' = [r_hist EXCEPT ![w] = Append(@, msg)]
          /\ r_log' = [r_log EXCEPT ![w] = Append(@, ApiCallLogLine(attempt[w], msg))]
          /\ IF attempt[w] < tries - 1
             THEN /\ r_slept' = [r_slept EXCEPT ![w] =
                                    Append(@, ApiCallDelay(attempt[w], msg))]
                  /\ r_pc' = [r_pc EXCEPT ![w] = "sleeping"]
                  /\ UNCHANGED r_ret
             ELSE /\ r_ret' = [r_ret EXCEPT ![w] = None]
                  /\ r_pc' = [r_pc EXCEPT ![w] = "returned"]
                  /\ UNCHANGED r_slept
    /\ UNCHANGED attempt
    /\ UNCHANGED <<rlVars, dlVars, disk, cmVars, fetchVars, laterVars>>

\* lines 103/106 end, line 87: the next iteration of `for attempt in range(tries)`
ApiCallNextAttempt(w) ==
    /\ r_pc[w] = "sleeping"
    /\ attempt' = [attempt EXCEPT ![w] = @ + 1]
    /\ IF attempt[w] + 1 < tries
       THEN r_pc' = [r_pc EXCEPT ![w] = "try"] /\ UNCHANGED r_ret
       ELSE /\ r_pc' = [r_pc EXCEPT ![w] = "returned"]
            /\ r_ret' = [r_ret EXCEPT ![w] = None]
    /\ UNCHANGED <<r_hist, r_slept, r_log>>
    /\ UNCHANGED <<rlVars, dlVars, disk, cmVars, fetchVars, laterVars>>

NextApiCall ==
    \/ \E w \in CollectorThreads : ApiCallSucceeds(w)
    \/ \E w \in CollectorThreads : ApiCallFails(w)
    \/ \E w \in CollectorThreads : ApiCallNextAttempt(w)

SpecApiCall == InitApiCall /\ [][NextApiCall]_vars

\* C8: after failed attempt k (1-based) that is not the last, the delay is
\* 5*k seconds when the failure text contains '429' or 'Too Many Requests'
\* and 2 seconds otherwise; no delay follows the last attempt.
C8_BackoffDelays ==
    \A w \in CollectorThreads :
       LET h == r_hist[w]
           nfail == Failures(h)
       IN /\ Len(r_slept[w]) = (IF nfail < 3 THEN nfail ELSE 2)
          /\ \A k \in DOMAIN r_slept[w] :
                r_slept[w][k] =
                   IF h[k] \in {"HTTP Error 429", "Too Many Requests"}
                   THEN 5 * k ELSE 2

\* C8 witness: a 429 failure, then a plain failure, then a third failure:
\* delays 5 and 2, and none after the last attempt.
C8_Witness ==
    \E w \in CollectorThreads :
       /\ r_pc[w] = "returned"
       /\ r_hist[w] = <<"HTTP Error 429", "timed out", "Too Many Requests">>
       /\ r_slept[w] = <<5, 2>>

\* C9: a success on attempt k <= 3 returns the result of attempt k and no
\* final 'Failed ... after N attempts' line is logged; so does a call that
\* fails twice with a 429 message and succeeds on attempt 3.
C9_SuccessAfterFailures ==
    \A w \in CollectorThreads :
       LET n == Len(r_hist[w])
       IN (n >= 1 /\ r_hist[w][n] = "ok") =>
             /\ r_pc[w] = "returned"
             /\ r_ret[w] = Result(n)
             /\ \A k \in DOMAIN r_log[w] : r_log[w][k] # "Failed"

\* C9 witness: two 429 failures, then success on the third attempt.
C9_Witness ==
    \E w \in CollectorThreads :
       /\ r_hist[w] = <<"HTTP Error 429", "HTTP Error 429", "ok">>
       /\ r_ret[w] = Result(3)
       /\ r_log[w] = <<"Rate limit hit", "Rate limit hit">>

(***************************************************************************)
(* PMCDownloader (pmc_downloader.py).  The remote service is an input:     *)
(* for each batch, what efetch on pubmed answered, and for each article    *)
(* how the download of its first PMC ID ended.                             *)
(***************************************************************************)
MaxLen == 2              \* longest id_list
MaxBatchSize == 2        \* largest batch_size
MaxThreads == 2          \* largest num_threads
MaxInterval == 2         \* largest checkpoint_interval

Pmids == {"1", "2"}
IdLists == UNION {[1..n -> Pmids] : n \in 0..MaxLen}
Min(a, b) == IF a <= b THEN a ELSE b

EmptyDict == [x \in {} |-> None]
\* d[k] = v on a dict
Put(d, k, v) == [x \in DOMAIN d \cup {k} |-> IF x = k THEN v ELSE d[x]]
\* an assignment where the code updates
Replace(d, e) == e
\* d.update(e)
Update(d, e) == [x \in DOMAIN d \cup DOMAIN e |-> IF x \in DOMAIN e THEN e[x] ELSE d[x]]

(***************************************************************************)
(* CheckpointManager (src/collectors/checkpoint_manager.py).  A file name   *)
(* is the record of its parts; the directory maps the names of the files    *)
(* that exist to their content.                                             *)
(***************************************************************************)
\* the index is not part of the name
CheckpointFileNoIndex(name, batch_index) ==
    [name |-> name, suffix |-> "checkpoint", index |-> 0]
\* f'{name}_checkpoint_{batch_index}.pkl'
CheckpointFile(name, batch_index) ==
    [name |-> name, suffix |-> "checkpoint", index |-> batch_index]
\* 'documents_final.pkl', 'failed_pmids_final.pkl', 'multiple_pmcids_final.pkl'
FinalFile(name) == [name |-> name, suffix |-> "final", index |-> -1]
\* pickle.dump writes a snapshot of the object; pickle.load rebuilds it
Pickle(data) == [pickled |-> data]
Unpickle(content) == content.pickled

\* save_checkpoint(batch_index, num_batches, documents, failed, multiple):
\* the directory after the three files are written
SaveCheckpoint(dir, batch_index, documents, failed, multiple) ==
    Put(Put(Put(dir,
        CheckpointFile("documents", batch_index), Pickle(documents)),
        CheckpointFile("failed_pmids", batch_index), Pickle(failed)),
        CheckpointFile("multiple_pmcids", batch_index), Pickle(multiple))

\* save_final_results(documents, failed, multiple)
SaveFinalResults(dir, documents, failed, multiple) ==
    Put(Put(Put(dir,
        FinalFile("documents"), Pickle(documents)),
        FinalFile("failed_pmids"), Pickle(failed)),
        FinalFile("multiple_pmcids"), Pickle(multiple))

\* lines 100-113: the default, replaced by the file's content if it exists
LoadFile(dir, file, default) ==
    IF file \in DOMAIN dir THEN Unpickle(dir[file]) ELSE default
\* nothing is loaded unless the three files exist
LoadCheckpointAllOrNothing(dir, batch_index) ==
    LET complete == \A name \in {"documents", "failed_pmids", "multiple_pmcids"} :
                        CheckpointFile(name, batch_index) \in DOMAIN dir
        from == IF complete THEN dir ELSE EmptyDict
    IN [documents |-> LoadFile(from, CheckpointFile("documents", batch_index), EmptyDict),
        failed    |-> LoadFile(from, CheckpointFile("failed_pmids", batch_index), <<>>),
        multiple  |-> LoadFile(from, CheckpointFile("multiple_pmcids", batch_index), EmptyDict)]
\* load_checkpoint(batch_index)
LoadCheckpoint(dir, batch_index) ==
    [documents |-> LoadFile(dir, CheckpointFile("documents", batch_index), EmptyDict),
     failed    |-> LoadFile(dir, CheckpointFile("failed_pmids", batch_index), <<>>),
     multiple  |-> LoadFile(dir, CheckpointFile("multiple_pmcids", batch_index), EmptyDict)]

(***************************************************************************)
(* The CheckpointManager called on its own: saves at any index, final       *)
(* saves and loads, in any order, on a directory that may hold the files    *)
(* of an earlier run.                                                       *)
(***************************************************************************)
MaxIndex == 1            \* largest batch_index used

CheckpointNames == {"documents", "failed_pmids", "multiple_pmcids"}
\* the collection save_checkpoint and save_final_results store under a name
Collection(set, name) ==
    CASE name = "documents" -> set.documents
      [] name = "failed_pmids" -> set.failed
      [] name = "multiple_pmcids" -> set.multiple

EmptySet == [documents |-> EmptyDict, failed |-> <<>>, multiple |-> EmptyDict]
\* the outcome sets handed to the saves
OutcomeSets ==
    {EmptySet,
     [documents |-> Put(EmptyDict, "1", [pmcid |-> "1", PMCID |-> "PMC1"]),
      failed    |-> <<"2">>,
      multiple  |-> EmptyDict],
     [documents |-> Put(Put(EmptyDict, "1", [pmcid |-> "1", PMCID |-> "PMC1"]),
                        "2", [pmcid |-> "2", PMCID |-> "PMC2"]),
      failed    |-> <<>>,
      multiple  |-> Put(EmptyDict, "1", <<"PMC1", "PMC2">>)]}
\* what the files of an earlier run hold
StaleSet ==
    [documents |-> Put(EmptyDict, "2", [pmcid |-> "2", PMCID |-> "PMC2"]),
     failed    |-> <<"1">>,
     multiple  |-> Put(EmptyDict, "2", <<"PMC2", "PMC1">>)]
\* an earlier run that left checkpoint 0 and the final results
StaleDir ==
    SaveFinalResults(
        SaveCheckpoint(EmptyDict, 0, StaleSet.documents, StaleSet.failed, StaleSet.multiple),
        StaleSet.documents, StaleSet.failed, StaleSet.multiple)
Restrict(d, F) == [x \in F |-> d[x]]

NotSaved == [saved |-> FALSE, data |-> EmptySet]
NoLoad == [batch_index |-> -1, result |-> EmptySet]

\* lines 13-21: the directory exists, with any part of the earlier run's files
InitCheckpoint ==
    /\ disk0 \in {Restrict(StaleDir, F) : F \in SUBSET DOMAIN StaleDir}
    /\ disk = disk0
    /\ cm_saved = [k \in 0..MaxIndex |-> NotSaved]
    /\ cm_final = NotSaved
    /\ cm_loaded = NoLoad
    /\ RLIdle /\ RetryIdle /\ DLIdle /\ FetchIdle /\ LaterIdle

\* save_checkpoint(batch_index, num_batches, documents, failed, multiple)
SaveCheckpointCall(batch_index, set) ==
    /\ disk' = SaveCheckpoint(disk, batch_index, set.documents, set.failed, set.multiple)
    /\ cm_saved' = [cm_saved EXCEPT ![batch_index] = [saved |-> TRUE, data |-> set]]
    /\ UNCHANGED <<disk0, cm_final, cm_loaded>>
    /\ UNCHANGED <<rlVars, retryVars, dlVars, fetchVars, laterVars>>

\* save_final_results(documents, failed, multiple)
SaveFinalResultsCall(set) ==
    /\ disk' = SaveFinalResults(disk, set.documents, set.failed, set.multiple)
    /\ cm_final' = [saved |-> TRUE, data |-> set]
    /\ UNCHANGED <<disk0, cm_saved, cm_loaded>>
    /\ UNCHANGED <<rlVars, retryVars, dlVars, fetchVars, laterVars>>

\* load_checkpoint(batch_index)
LoadCheckpointCall(batch_index) ==
    /\ cm_loaded' = [batch_index |-> batch_index,
                     result |-> LoadCheckpoint(disk, batch_index)]
    /\ UNCHANGED <<disk, disk0, cm_saved, cm_final>>
    /\ UNCHANGED <<rlVars, retryVars, dlVars, fetchVars, laterVars>>

NextCheckpoint ==
    \/ \E k \in 0..MaxIndex, set \in OutcomeSets : SaveCheckpointCall(k, set)
    \/ \E set \in OutcomeSets : SaveFinalResultsCall(set)
    \/ \E k \in 0..MaxIndex : LoadCheckpointCall(k)

SpecCheckpoint == InitCheckpoint /\ [][NextCheckpoint]_vars

\* article['PubmedData']['ArticleIdList'] of the records tried
ArticleIdLists == {<<"doi1">>, <<"doi1", "PMC1">>, <<"PMC1", "doi1", "PMC2">>}
\* line 91: str(id_item).startswith('PMC')
StartsWithPMC(x) == x \in {"PMC1", "PMC2"}
\* line 39: pmcid.replace("PMC", "") if pmcid.startswith("PMC") else pmcid
StripPMC(x) == CASE x = "PMC1" -> "1" [] x = "PMC2" -> "2" [] OTHER -> x

NoKey == "KeyError"
\* The records the service may return for PMID p: without a PMID, without
\* PubmedData, or with one of the ID lists and a download that ends either way.
ArticleRecordsOver(p, lists) ==
    {[PMID |-> NoKey, PubmedData |-> TRUE, ArticleIdList |-> <<"doi1">>, download |-> "none"],
     [PMID |-> p, PubmedData |-> FALSE, ArticleIdList |-> <<>>, download |-> "none"]}
    \cup {[PMID |-> p, PubmedData |-> TRUE, ArticleIdList |-> l, download |-> d] :
             l \in lists, d \in {"doc", "none"}}
ArticleRecords(p) == ArticleRecordsOver(p, ArticleIdLists)
Absent == [PMID |-> "absent", PubmedData |-> FALSE, ArticleIdList |-> <<>>, download |-> "none"]
IsPresent(a) == a # Absent

\* What efetch answers for a batch: no handle (safe_call gave up), a payload
\* Entrez.read cannot parse, records without a .get (a list), or a dict whose
\* PubmedArticle list holds, in request order, a record for some of the PMIDs.
ResponsesOver(batch, lists) ==
    {[handle |-> FALSE, parses |-> TRUE, shape |-> "dict", PubmedArticle |-> <<>>],
     [handle |-> TRUE, parses |-> FALSE, shape |-> "dict", PubmedArticle |-> <<>>],
     [handle |-> TRUE, parses |-> TRUE, shape |-> "list", PubmedArticle |-> <<>>]}
    \cup {[handle |-> TRUE, parses |-> TRUE, shape |-> "dict",
           PubmedArticle |-> SelectSeq([k \in 1..Len(batch) |-> f[k]], IsPresent)] :
             f \in {g \in [1..Len(batch) ->
                              UNION {ArticleRecordsOver(p, lists) : p \in Pmids} \cup {Absent}] :
                      \A k \in 1..Len(batch) : g[k] = Absent \/ g[k].PMID \in {batch[k], NoKey}}}
Responses(batch) == ResponsesOver(batch, ArticleIdLists)

\* NCBIClient.fetch_and_parse: None without a handle or when Entrez.read raises
NoRecords == [shape |-> "None", PubmedArticle |-> <<>>]
FetchAndParse(resp) ==
    IF resp.handle
    THEN IF resp.parses
         THEN [shape |-> resp.shape, PubmedArticle |-> resp.PubmedArticle]
         ELSE NoRecords
    ELSE NoRecords

\* PMCDownloader.download_article: the parsed document of the stripped PMCID, or None
NoDocument == [pmcid |-> "None", PMCID |-> "None"]
DownloadArticle(pmcid, outcome) ==
    IF outcome = "doc"
    THEN [pmcid |-> StripPMC(pmcid), PMCID |-> "unset"]
    ELSE NoDocument

\* The three collections of fetch_pmcids_from_pmids, the PMC IDs handed to
\* download_article, what fetch_and_parse returned, and whether the call raised.
EmptyOutcome(shape) ==
    [failed |-> <<>>, multiple |-> EmptyDict, documents |-> EmptyDict,
     fetched |-> <<>>, records |-> shape, raised |-> FALSE]

\* The batch is dropped: nothing is marked failed.
FailNothing(batch, acc) == acc
\* lines 78-80: failed_pmids.extend(pmid_batch); return
FailWholeBatch(batch, acc) == [acc EXCEPT !.failed = acc.failed \o batch]

\* the last candidate is used
LastCandidate(pmcids) == pmcids[Len(pmcids)]
\* line 102: pmcids[0]
FirstCandidate(pmcids) == pmcids[1]

\* the article is skipped without a trace
NoPmcidsSkipped(acc, pmid) == acc
\* lines 93-95: no PMC ID, failed_pmids.append(pmid); continue
NoPmcids(acc, pmid) == [acc EXCEPT !.failed = Append(@, pmid)]

\* lines 85-114: one iteration of `for article in articles`
ProcessArticle(acc, article) ==
    IF article.PMID = NoKey
    THEN acc                                                 \* line 114
    ELSE IF ~article.PubmedData
    THEN [acc EXCEPT !.failed = Append(@, article.PMID)]     \* lines 110-112
    ELSE LET pmid == article.PMID
             pmcids == SelectSeq(article.ArticleIdList, StartsWithPMC)
         IN IF pmcids = <<>>
            THEN NoPmcids(acc, pmid)
            ELSE LET acc1 == IF Len(pmcids) > 1
                             THEN [acc EXCEPT !.multiple = Put(@, pmid, pmcids)]
                             ELSE acc
                     pmcid == FirstCandidate(pmcids)
                     acc2 == [acc1 EXCEPT !.fetched = Append(@, pmcid)]
                     document == DownloadArticle(pmcid, article.download)
                 IN IF document # NoDocument
                    THEN [acc2 EXCEPT !.documents =
                             Put(@, pmid, [document EXCEPT !.PMCID = pmcid])]
                    ELSE [acc2 EXCEPT !.failed = Append(@, pmid)]

RECURSIVE ProcessArticles(_, _)
ProcessArticles(acc, articles) ==
    IF articles = <<>>
    THEN acc
    ELSE ProcessArticles(ProcessArticle(acc, Head(articles)), Tail(articles))

\* PMCDownloader.fetch_pmcids_from_pmids
FetchPmcidsFromPmids(pmid_batch, resp) ==
    LET records == FetchAndParse(resp)
    IN IF records.shape = "None"
       THEN FailWholeBatch(pmid_batch, EmptyOutcome("None"))
       ELSE IF records.shape # "dict"
       THEN [EmptyOutcome(records.shape) EXCEPT !.raised = TRUE]   \* line 83 raises
       ELSE ProcessArticles(EmptyOutcome("dict"), records.PubmedArticle)

(***************************************************************************)
(* parse_pmc_xml (src/parsers/xml_parser.py).  An element is its tag, its   *)
(* article-type attribute, the metadata nodes found below it and its child  *)
(* elements in document order.                                              *)
(***************************************************************************)
NoAttr == "no attribute"
MetaNodes == {"doi", "pmid", "journal-title", "article-title", "year"}
Element(tag, type, nodes, kids) ==
    [tag |-> tag, type |-> type, nodes |-> nodes, kids |-> kids]
NoElement == Element("None", NoAttr, {}, <<>>)

\* article elements with any part of the metadata
ArticleElements ==
    {Element("article", t, ns, <<>>) : t \in {"research-article", NoAttr}, ns \in SUBSET MetaNodes}
\* the elements put inside other elements
InnerElements ==
    {Element("article", "research-article", MetaNodes, <<>>),
     Element("article", NoAttr, {}, <<>>),
     Element("pmc-articleset", NoAttr, {}, <<>>),
     Element("front", NoAttr, {}, <<>>)}
Wrappers(inner) ==
    {Element(t, NoAttr, {}, kids) :
        t \in {"pmc-articleset", "response"},
        kids \in {<<e>> : e \in inner} \cup {<<Element("front", NoAttr, {}, <<>>), e>> : e \in inner}}
\* what xml_content may be: text that does not parse, bytes that do not
\* decode, or (as text or as bytes) a document with one of the roots
XmlInputs ==
    {[form |-> "str", decodes |-> TRUE, wellformed |-> FALSE, root |-> NoElement],
     [form |-> "bytes", decodes |-> FALSE, wellformed |-> TRUE, root |-> NoElement]}
    \cup {[form |-> f, decodes |-> TRUE, wellformed |-> TRUE, root |-> e] :
             f \in {"str", "bytes"},
             e \in ArticleElements \cup InnerElements \cup Wrappers(InnerElements)
                   \cup Wrappers(Wrappers(InnerElements))}

RECURSIVE FindDescendant(_, _)
RECURSIVE FindAmong(_, _)
\* the first element with the tag among the elements and what is below them,
\* in document order
FindAmong(elements, tag) ==
    IF elements = <<>>
    THEN NoElement
    ELSE IF Head(elements).tag = tag
    THEN Head(elements)
    ELSE LET below == FindDescendant(Head(elements), tag)
         IN IF below # NoElement THEN below ELSE FindAmong(Tail(elements), tag)
\* only the child elements are looked at
FindChild(e, tag) ==
    IF \E k \in DOMAIN e.kids : e.kids[k].tag = tag
    THEN e.kids[CHOOSE k \in DOMAIN e.kids :
                   e.kids[k].tag = tag /\ \A j \in 1..(k - 1) : e.kids[j].tag # tag]
    ELSE NoElement
\* e.find('.//tag')
FindDescendant(e, tag) == FindAmong(e.kids, tag)

\* lines 11-32: extract_article_root
ExtractArticleRoot(root) ==
    IF root.tag = "article"
    THEN root
    ELSE LET article == FindDescendant(root, "article")
         IN IF article # NoElement
            THEN article
            ELSE LET pmc_set == FindDescendant(root, "pmc-articleset")
                 IN IF pmc_set # NoElement
                    THEN FindDescendant(pmc_set, "article")
                    ELSE NoElement

\* the texts of the metadata nodes of the documents tried
NodeText(node) ==
    CASE node = "doi" -> "10.1/a"
      [] node = "pmid" -> "123"
      [] node = "journal-title" -> "Journal"
      [] node = "article-title" -> "Title"
      [] node = "year" -> "2020"
\* f"https://pubmed.ncbi.nlm.nih.gov/{pmid_elem.text}/"
PubMedLink(pmid) == <<"https://pubmed.ncbi.nlm.nih.gov/", pmid, "/">>
\* f"https://www.ncbi.nlm.nih.gov/pmc/articles/PMC{pmcid}/"
PMCLink(pmcid) == <<"https://www.ncbi.nlm.nih.gov/pmc/articles/PMC", pmcid, "/">>

\* a key is written only if its node exists
SetIfFound(metadata, key, article, node) ==
    IF node \in article.nodes THEN Put(metadata, key, <<NodeText(node)>>) ELSE metadata
\* a key is written with the node's text or with the placeholder
SetOrPlaceholder(metadata, key, article, node, placeholder) ==
    Put(metadata, key, IF node \in article.nodes THEN <<NodeText(node)>> ELSE <<placeholder>>)

\* lines 35-80: extract_metadata
ExtractMetadata(article, pmcid) ==
    LET m1 == Put(EmptyDict, "Article Type",
                  IF article.type # NoAttr THEN <<article.type>> ELSE <<"Not specified">>)
        m2 == SetOrPlaceholder(m1, "DOI", article, "doi", "DOI not available")
        m3 == Put(m2, "PubMed Link",
                  IF "pmid" \in article.nodes
                  THEN PubMedLink(NodeText("pmid")) ELSE <<"Not available">>)
        m4 == Put(m3, "PMC Link", PMCLink(pmcid))
        m5 == SetIfFound(m4, "Journal", article, "journal-title")
        m6 == SetIfFound(m5, "Title", article, "article-title")
        m7 == SetIfFound(m6, "Year Published", article, "year")
    IN m7

\* parse_pmc_xml returned None
NoParse == [metadata |-> EmptyDict, page_content |-> "None"]
\* lines 229-269: parse_pmc_xml
ParsePmcXml(xml_content, pmcid) ==
    IF (xml_content.form = "bytes" /\ ~xml_content.decodes) \/ ~xml_content.wellformed
    THEN NoParse                                             \* lines 246-248
    ELSE LET article == ExtractArticleRoot(xml_content.root)
         IN IF article = NoElement
            THEN NoParse                                     \* lines 252-254
            ELSE [metadata |-> ExtractMetadata(article, pmcid),
                  page_content |-> "text"]

InitParser ==
    /\ x_content \in XmlInputs
    /\ x_pmcid \in {"1", "2"}
    /\ x_doc = NoParse
    /\ x_acc = EmptyOutcome("dict")
    /\ x_pc = "called"
    /\ RLIdle /\ RetryIdle /\ DLIdle /\ DiskIdle /\ CMIdle /\ FetchIdle
    /\ ColIdle /\ PoolIdle

\* pmc_downloader.py line 55: download_article returns parse_pmc_xml(...)
ParseReturns ==
    /\ x_pc = "called"
    /\ x_doc' = ParsePmcXml(x_content, x_pmcid)
    /\ x_pc' = "parsed"
    /\ UNCHANGED <<x_content, x_pmcid, x_acc>>
    /\ UNCHANGED <<rlVars, retryVars, dlVars, disk, cmVars, fetchVars, colVars, poolVars>>

\* pmc_downloader.py lines 102-107: the caller stores the document under the
\* PMID, or appends the PMID to failed
CallerRecords ==
    /\ x_pc = "parsed"
    /\ x_acc' = ProcessArticle(x_acc,
                    [PMID |-> "1", PubmedData |-> TRUE,
                     ArticleIdList |-> <<IF x_pmcid = "1" THEN "PMC1" ELSE "PMC2">>,
                     download |-> IF x_doc = NoParse THEN "none" ELSE "doc"])
    /\ x_pc' = "recorded"
    /\ UNCHANGED <<x_content, x_pmcid, x_doc>>
    /\ UNCHANGED <<rlVars, retryVars, dlVars, disk, cmVars, fetchVars, colVars, poolVars>>

NextParser ==
    \/ ParseReturns
    \/ CallerRecords

SpecParser == InitParser /\ [][NextParser]_vars

(***************************************************************************)
(* The per-DOI collector: main of src/collectors/paper_collector.py, run    *)
(* by scripts/collect_papers.py.  A DOI string is the sequence of its       *)
(* parts: an optional URL prefix and the DOI proper.                        *)
(***************************************************************************)
MaxDois == 2             \* longest DOI list
MaxRuns == 2             \* runs of main over the same cache file

UrlPrefixes == {"https://doi.org/", "http://doi.org/", "doi.org/"}
BareDois == {"10.1/a", "10.1/b"}
DoiStrings ==
    {<<b>> : b \in BareDois}
    \cup {<<"https://doi.org/", "10.1/a">>, <<"http://doi.org/", "10.1/a">>,
          <<"doi.org/", "10.1/b">>}
DoiLists == UNION {[1..n -> DoiStrings] : n \in 0..MaxDois}

\* the string is returned as it is
KeepDoi(doi) == doi
\* lines 56-72: normalize_doi
NormalizeDoi(doi) ==
    IF Len(doi) > 0 /\ Head(doi) \in UrlPrefixes THEN Tail(doi) ELSE doi

\* what get_paper_data_from_doi and save_paper_data make of one DOI
DoiOutcomes == {"no_data", "raised", "save_failed", "saved"}
NotRun == "not run"

\* line 530: the DOIs not in the cache, in list order
DoisToProcess(list, processed) ==
    SelectSeq(list, LAMBDA doi : NormalizeDoi(doi) \notin processed)

FetchCounts == [b \in {<<d>> : d \in BareDois} |-> 0]

InitCollector ==
    /\ dois \in DoiLists
    /\ cache_file \in SUBSET {<<b>> : b \in BareDois}
    /\ processed_dois = {}
    /\ c_futures = <<>>
    /\ c_drained = {}
    /\ c_fetched = FetchCounts
    /\ c_saved = {}
    /\ c_cache0 = cache_file
    /\ c_run = 1
    /\ c_pc = "called"
    /\ c_exit = -1
    /\ RLIdle /\ RetryIdle /\ DLIdle /\ DiskIdle /\ CMIdle /\ FetchIdle
    /\ XmlIdle /\ PoolIdle

\* lines 526-542: the cache is loaded and every DOI not in it is submitted
SubmitDois ==
    /\ c_pc = "called"
    /\ DoisToProcess(dois, cache_file) # <<>>
    /\ processed_dois' = cache_file
    /\ c_futures' = [i \in DOMAIN DoisToProcess(dois, cache_file) |->
                        [doi |-> DoisToProcess(dois, cache_file)[i], outcome |-> NotRun]]
    /\ c_pc' = "draining"
    /\ UNCHANGED <<dois, cache_file, c_drained, c_fetched, c_saved, c_cache0, c_run, c_exit>>
    /\ UNCHANGED <<rlVars, retryVars, dlVars, disk, cmVars, fetchVars, xmlVars, poolVars>>

\* lines 533-535, collect_papers.py line 159: nothing is new, main returns
NoNewDois ==
    /\ c_pc = "called"
    /\ DoisToProcess(dois, cache_file) = <<>>
    /\ processed_dois' = cache_file
    /\ c_pc' = "returned"
    /\ c_exit' = 0
    /\ UNCHANGED <<dois, cache_file, c_futures, c_drained, c_fetched, c_saved, c_cache0, c_run>>
    /\ UNCHANGED <<rlVars, retryVars, dlVars, disk, cmVars, fetchVars, xmlVars, poolVars>>

\* lines 472-503: process_doi in a worker; the workers already started also
\* run to their end while the executor shuts down
ProcessDoi(i) ==
    /\ c_pc \in {"draining", "interrupting"}
    /\ i \in DOMAIN c_futures
    /\ c_futures[i].outcome = NotRun
    /\ LET normalized_doi == NormalizeDoi(c_futures[i].doi)
       IN IF normalized_doi \in processed_dois
          THEN /\ c_futures' = [c_futures EXCEPT ![i].outcome = "skipped"]
               /\ UNCHANGED <<c_fetched, c_saved>>
          ELSE \E outcome \in DoiOutcomes :
                   /\ c_futures' = [c_futures EXCEPT ![i].outcome = outcome]
                   /\ c_fetched' = [c_fetched EXCEPT ![normalized_doi] = @ + 1]
                   /\ c_saved' = IF outcome = "saved"
                                 THEN c_saved \cup {normalized_doi} ELSE c_saved
    /\ UNCHANGED <<dois, cache_file, processed_dois, c_drained, c_cache0, c_run, c_pc, c_exit>>
    /\ UNCHANGED <<rlVars, retryVars, dlVars, disk, cmVars, fetchVars, xmlVars, poolVars>>

\* lines 544-553: the loop over as_completed takes one finished future
CollectResult(i) ==
    /\ c_pc = "draining"
    /\ i \in DOMAIN c_futures
    /\ i \notin c_drained
    /\ c_futures[i].outcome # NotRun
    /\ c_drained' = c_drained \cup {i}
    /\ processed_dois' = IF c_futures[i].outcome = "saved"
                         THEN processed_dois \cup {NormalizeDoi(c_futures[i].doi)}
                         ELSE processed_dois
    /\ UNCHANGED <<dois, cache_file, c_futures, c_fetched, c_saved, c_cache0, c_run, c_pc, c_exit>>
    /\ UNCHANGED <<rlVars, retryVars, dlVars, disk, cmVars, fetchVars, xmlVars, poolVars>>

\* the cache file keeps what it had
SaveNothing ==
    /\ c_pc = "draining"
    /\ c_drained = DOMAIN c_futures
    /\ c_pc' = "returned"
    /\ c_exit' = 0
    /\ UNCHANGED <<dois, cache_file, processed_dois, c_futures, c_drained, c_fetched, c_saved,
                   c_cache0, c_run>>
    /\ UNCHANGED <<rlVars, retryVars, dlVars, disk, cmVars, fetchVars, xmlVars, poolVars>>

\* line 556, collect_papers.py line 159: save_processed_dois, main returns
SaveProcessedDois ==
    /\ c_pc = "draining"
    /\ c_drained = DOMAIN c_futures
    /\ cache_file' = processed_dois
    /\ c_pc' = "returned"
    /\ c_exit' = 0
    /\ UNCHANGED <<dois, processed_dois, c_futures, c_drained, c_fetched, c_saved, c_cache0, c_run>>
    /\ UNCHANGED <<rlVars, retryVars, dlVars, disk, cmVars, fetchVars, xmlVars, poolVars>>

\* KeyboardInterrupt in the main thread inside the with block of line 541
CollectorInterrupt ==
    /\ c_pc = "draining"
    /\ c_pc' = "interrupting"
    /\ UNCHANGED <<dois, cache_file, processed_dois, c_futures, c_drained, c_fetched, c_saved,
                   c_cache0, c_run, c_exit>>
    /\ UNCHANGED <<rlVars, retryVars, dlVars, disk, cmVars, fetchVars, xmlVars, poolVars>>

\* collect_papers.py lines 160-162: the interrupt leaves main of the
\* collector before line 556 and the wrapper returns 1
InterruptReturns ==
    /\ c_pc = "interrupting"
    /\ \A i \in DOMAIN c_futures : c_futures[i].outcome # NotRun
    /\ c_pc' = "interrupted"
    /\ c_exit' = 1
    /\ UNCHANGED <<dois, cache_file, processed_dois, c_futures, c_drained, c_fetched, c_saved,
                   c_cache0, c_run>>
    /\ UNCHANGED <<rlVars, retryVars, dlVars, disk, cmVars, fetchVars, xmlVars, poolVars>>

\* the script is run again with the same list and the cache file left behind
Rerun ==
    /\ c_pc \in {"returned", "interrupted"}
    /\ c_run < MaxRuns
    /\ c_run' = c_run + 1
    /\ c_cache0' = cache_file
    /\ processed_dois' = {}
    /\ c_futures' = <<>>
    /\ c_drained' = {}
    /\ c_fetched' = FetchCounts
    /\ c_saved' = {}
    /\ c_pc' = "called"
    /\ c_exit' = -1
    /\ UNCHANGED <<dois, cache_file>>
    /\ UNCHANGED <<rlVars, retryVars, dlVars, disk, cmVars, fetchVars, xmlVars, poolVars>>

NextCollector ==
    \/ SubmitDois
    \/ NoNewDois
    \/ \E i \in 1..MaxDois : ProcessDoi(i)
    \/ \E i \in 1..MaxDois : CollectResult(i)
    \/ SaveProcessedDois
    \/ CollectorInterrupt
    \/ InterruptReturns
    \/ Rerun

SpecCollector == InitCollector /\ [][NextCollector]_vars

(***************************************************************************)
(* download_batch_parallel over the shared RateLimiter: num_threads worker  *)
(* threads run the batches, every remote call of a batch goes through       *)
(* NCBIClient.safe_call and takes one of the N permits of the semaphore.    *)
(* Every call returns or raises; time is left out.                          *)
(***************************************************************************)
MaxPoolThreads == 2      \* largest num_threads
MaxPoolSlots == 2        \* largest max_requests_per_sec
MaxPoolBatches == 2      \* most batches submitted
MaxArticles == 1         \* most articles downloaded for one batch

PoolThreads == 1..MaxPoolThreads
\* a worker thread of the executor with no batch
IdleThread == [batch |-> 0, first |-> FALSE, calls_left |-> 0, attempt |-> 0, pos |-> "idle"]

InitPool ==
    /\ pool_slots \in 1..MaxPoolSlots
    /\ pool_sem = pool_slots
    /\ pool_threads \in 1..MaxPoolThreads
    /\ pool_thread = [t \in 1..pool_threads |-> IdleThread]
    /\ pool_future \in UNION {[1..n -> {"queued"}] : n \in 0..MaxPoolBatches}
    /\ pool_drained = {}
    /\ pool_pc = "draining"
    /\ RLIdle /\ RetryIdle /\ DLIdle /\ DiskIdle /\ CMIdle /\ FetchIdle
    /\ XmlIdle /\ ColIdle

\* pmc_downloader.py line 146: an idle worker takes the batch submitted
\* first among those still queued; the batch starts with the fetch of its
\* records (line 76)
TakeBatch(t) ==
    /\ t \in DOMAIN pool_thread
    /\ pool_thread[t].pos = "idle"
    /\ \E k \in DOMAIN pool_future :
          /\ pool_future[k] = "queued"
          /\ \A j \in 1..(k - 1) : pool_future[j] # "queued"
          /\ pool_future' = [pool_future EXCEPT ![k] = "running"]
          /\ pool_thread' = [pool_thread EXCEPT ![t] =
                [batch |-> k, first |-> TRUE, calls_left |-> 1, attempt |-> 0, pos |-> "waiting"]]
    /\ UNCHANGED <<pool_slots, pool_sem, pool_threads, pool_drained, pool_pc>>
    /\ UNCHANGED <<rlVars, retryVars, dlVars, disk, cmVars, fetchVars, xmlVars, colVars>>

\* rate_limiter.py line 37: with self.semaphore, entered when a permit is free
AcquireSlot(t) ==
    /\ t \in DOMAIN pool_thread
    /\ pool_thread[t].pos = "waiting"
    /\ pool_sem > 0
    /\ pool_sem' = pool_sem - 1
    /\ pool_thread' = [pool_thread EXCEPT ![t].pos = "inside"]
    /\ UNCHANGED <<pool_slots, pool_threads, pool_future, pool_drained, pool_pc>>
    /\ UNCHANGED <<rlVars, retryVars, dlVars, disk, cmVars, fetchVars, xmlVars, colVars>>

\* the thread after a call of safe_call is over with calls_left calls to go
AfterCall(thread, calls_left) ==
    [thread EXCEPT !.first = FALSE, !.calls_left = calls_left, !.attempt = 0,
                   !.pos = IF calls_left > 0 THEN "waiting" ELSE "finishing"]

\* rate_limiter.py line 46, ncbi_client.py line 51: the call returns, the
\* with block gives the permit back; the fetch of the records says how many
\* articles are downloaded next (pmc_downloader.py lines 83-102)
PoolCallReturns(t) ==
    /\ t \in DOMAIN pool_thread
    /\ pool_thread[t].pos = "inside"
    /\ pool_sem' = pool_sem + 1
    /\ IF pool_thread[t].first
       THEN \E articles \in 0..MaxArticles :
               pool_thread' = [pool_thread EXCEPT ![t] = AfterCall(@, articles)]
       ELSE pool_thread' = [pool_thread EXCEPT ![t] = AfterCall(@, @.calls_left - 1)]
    /\ UNCHANGED <<pool_slots, pool_threads, pool_future, pool_drained, pool_pc>>
    /\ UNCHANGED <<rlVars, retryVars, dlVars, disk, cmVars, fetchVars, xmlVars, colVars>>

\* the thread after its call raised
AfterRaise(thread) ==
    IF thread.attempt < RETRY_ATTEMPTS - 1
    THEN [thread EXCEPT !.attempt = @ + 1, !.pos = "sleeping"]       \* lines 53-55
    ELSE AfterCall(thread, IF thread.first THEN 0 ELSE thread.calls_left - 1)

\* the exception leaves the with block without giving the permit back
PoolCallRaisesHoldingSlot(t) ==
    /\ t \in DOMAIN pool_thread
    /\ pool_thread[t].pos = "inside"
    /\ pool_thread' = [pool_thread EXCEPT ![t] = AfterRaise(@)]
    /\ UNCHANGED <<pool_slots, pool_sem, pool_threads, pool_future, pool_drained, pool_pc>>
    /\ UNCHANGED <<rlVars, retryVars, dlVars, disk, cmVars, fetchVars, xmlVars, colVars>>

\* rate_limiter.py lines 37-46, ncbi_client.py lines 52-57: the call raises,
\* the with block gives the permit back, safe_call sleeps and tries again or
\* returns None after the last attempt; without records the batch is over
\* (pmc_downloader.py lines 78-80)
PoolCallRaises(t) ==
    /\ t \in DOMAIN pool_thread
    /\ pool_thread[t].pos = "inside"
    /\ pool_sem' = pool_sem + 1
    /\ pool_thread' = [pool_thread EXCEPT ![t] = AfterRaise(@)]
    /\ UNCHANGED <<pool_slots, pool_threads, pool_future, pool_drained, pool_pc>>
    /\ UNCHANGED <<rlVars, retryVars, dlVars, disk, cmVars, fetchVars, xmlVars, colVars>>

\* ncbi_client.py line 55: time.sleep(self.retry_delay) is over
RetryWakes(t) ==
    /\ t \in DOMAIN pool_thread
    /\ pool_thread[t].pos = "sleeping"
    /\ pool_thread' = [pool_thread EXCEPT ![t].pos = "waiting"]
    /\ UNCHANGED <<pool_slots, pool_sem, pool_threads, pool_future, pool_drained, pool_pc>>
    /\ UNCHANGED <<rlVars, retryVars, dlVars, disk, cmVars, fetchVars, xmlVars, colVars>>

\* fetch_pmcids_from_pmids returns: the future is finished, the worker is free
BatchFinishes(t) ==
    /\ t \in DOMAIN pool_thread
    /\ pool_thread[t].pos = "finishing"
    /\ pool_future' = [pool_future EXCEPT ![pool_thread[t].batch] = "done"]
    /\ pool_thread' = [pool_thread EXCEPT ![t] = IdleThread]
    /\ UNCHANGED <<pool_slots, pool_sem, pool_threads, pool_drained, pool_pc>>
    /\ UNCHANGED <<rlVars, retryVars, dlVars, disk, cmVars, fetchVars, xmlVars, colVars>>

\* pmc_downloader.py lines 148-160: as_completed hands over a finished future
DrainBatch(k) ==
    /\ pool_pc = "draining"
    /\ k \in DOMAIN pool_future
    /\ pool_future[k] = "done"
    /\ k \notin pool_drained
    /\ pool_drained' = pool_drained \cup {k}
    /\ UNCHANGED <<pool_slots, pool_sem, pool_threads, pool_thread, pool_future, pool_pc>>
    /\ UNCHANGED <<rlVars, retryVars, dlVars, disk, cmVars, fetchVars, xmlVars, colVars>>

\* pmc_downloader.py line 162: every future was taken, the function returns
PoolReturns ==
    /\ pool_pc = "draining"
    /\ pool_drained = DOMAIN pool_future
    /\ pool_pc' = "returned"
    /\ UNCHANGED <<pool_slots, pool_sem, pool_threads, pool_thread, pool_future, pool_drained>>
    /\ UNCHANGED <<rlVars, retryVars, dlVars, disk, cmVars, fetchVars, xmlVars, colVars>>

NextPool ==
    \/ \E t \in PoolThreads : TakeBatch(t)
    \/ \E t \in PoolThreads : AcquireSlot(t)
    \/ \E t \in PoolThreads : PoolCallReturns(t)
    \/ \E t \in PoolThreads : PoolCallRaises(t)
    \/ \E t \in PoolThreads : RetryWakes(t)
    \/ \E t \in PoolThreads : BatchFinishes(t)
    \/ \E k \in 1..MaxPoolBatches : DrainBatch(k)
    \/ PoolReturns

SpecPool == InitPool /\ [][NextPool]_vars

\* a thread that can run does run, and so does the coordinating thread: as
\* long as some step is possible, a step is taken
FairSpecPool == SpecPool /\ WF_vars(NextPool)

(***************************************************************************)
(* One call of fetch_pmcids_from_pmids, an article record at a time.        *)
(***************************************************************************)
\* the ID lists tried in a single call: also candidates out of numeric order
FetchIdLists == ArticleIdLists \cup {<<"PMC2", "PMC1">>, <<"PMC2">>}

\* the articles the loop of line 84 walks
Articles == FetchAndParse(f_resp).PubmedArticle

InitFetch ==
    /\ f_batch \in IdLists \ {<<>>}
    /\ f_resp \in ResponsesOver(f_batch, FetchIdLists)
    /\ f_acc = EmptyOutcome("unset")
    /\ f_i = 0
    /\ f_pc = "called"
    /\ RLIdle /\ RetryIdle /\ DLIdle /\ DiskIdle /\ CMIdle /\ LaterIdle

\* lines 70-83: the collections are created, the batch is fetched and parsed
FetchRecords ==
    /\ f_pc = "called"
    /\ LET records == FetchAndParse(f_resp)
       IN IF records.shape = "None"
          THEN /\ f_acc' = FailWholeBatch(f_batch, EmptyOutcome("None"))
               /\ f_pc' = "returned"
          ELSE IF records.shape # "dict"
          THEN /\ f_acc' = [EmptyOutcome(records.shape) EXCEPT !.raised = TRUE]
               /\ f_pc' = "raised"
          ELSE /\ f_acc' = EmptyOutcome("dict")
               /\ f_pc' = "looping"
    /\ UNCHANGED <<f_batch, f_resp, f_i>>
    /\ UNCHANGED <<rlVars, retryVars, dlVars, disk, cmVars, laterVars>>

\* lines 84-114: the next article record is processed
NextArticle ==
    /\ f_pc = "looping"
    /\ f_i < Len(Articles)
    /\ f_acc' = ProcessArticle(f_acc, Articles[f_i + 1])
    /\ f_i' = f_i + 1
    /\ UNCHANGED <<f_batch, f_resp, f_pc>>
    /\ UNCHANGED <<rlVars, retryVars, dlVars, disk, cmVars, laterVars>>

\* line 116: the loop is over, the three collections are returned
FetchReturns ==
    /\ f_pc = "looping"
    /\ f_i = Len(Articles)
    /\ f_pc' = "returned"
    /\ UNCHANGED <<f_batch, f_resp, f_acc, f_i>>
    /\ UNCHANGED <<rlVars, retryVars, dlVars, disk, cmVars, laterVars>>

NextFetch ==
    \/ FetchRecords
    \/ NextArticle
    \/ FetchReturns

SpecFetch == InitFetch /\ [][NextFetch]_vars

\* the identifiers after the last full batch are left out
NumBatchesFloor == Len(id_list) \div batch_size
\* line 142: batches = [id_list[i:i + batch_size] for i in range(0, len(id_list), batch_size)]
NumBatches == (Len(id_list) + batch_size - 1) \div batch_size
BatchIds == 0..(NumBatches - 1)
Batch(k) == SubSeq(id_list, k * batch_size + 1, Min((k + 1) * batch_size, Len(id_list)))

Running == {k \in BatchIds : futures[k].state = "running"}

(***************************************************************************)
(* The split of id_list into batches, on longer lists than the runs below.  *)
(***************************************************************************)
MaxIdListLen == 4        \* longest id_list that is split

InitBatches ==
    /\ id_list \in UNION {[1..n -> Pmids] : n \in 0..MaxIdListLen}
    /\ batch_size \in 1..MaxBatchSize
    /\ num_threads \in 1..MaxThreads
    /\ futures = <<>>
    /\ drained = {}
    /\ retrieved_documents = EmptyDict
    /\ failed_pmids = <<>>
    /\ multiple_pmcids = EmptyDict
    /\ progress = <<>>
    /\ d_pc = "called"
    /\ checkpoint_interval = 0
    /\ exit_code = -1
    /\ RLIdle /\ RetryIdle /\ DiskIdle /\ CMIdle /\ FetchIdle /\ LaterIdle

\* lines 142-146: the batches are cut and one future is submitted for each
SubmitBatches ==
    /\ d_pc = "called"
    /\ futures' = [k \in BatchIds |-> [state |-> "pending", result |-> EmptyOutcome("unset")]]
    /\ d_pc' = "submitted"
    /\ UNCHANGED <<id_list, batch_size, num_threads, drained, retrieved_documents,
                   failed_pmids, multiple_pmcids, progress, checkpoint_interval,
                   exit_code>>
    /\ UNCHANGED <<rlVars, retryVars, disk, cmVars, fetchVars, laterVars>>

\* lines 148-162 without a future: the loop body never runs, the empty
\* collections are returned
ReturnNoBatches ==
    /\ d_pc = "submitted"
    /\ DOMAIN futures = {}
    /\ d_pc' = "returned"
    /\ UNCHANGED <<id_list, batch_size, num_threads, futures, drained,
                   retrieved_documents, failed_pmids, multiple_pmcids, progress,
                   checkpoint_interval, exit_code>>
    /\ UNCHANGED <<rlVars, retryVars, disk, cmVars, fetchVars, laterVars>>

NextBatches ==
    \/ SubmitBatches
    \/ ReturnNoBatches

SpecBatches == InitBatches /\ [][NextBatches]_vars

\* lines 137-146: the arguments, the empty totals, every batch submitted
Init ==
    /\ id_list \in IdLists
    /\ batch_size \in 1..MaxBatchSize
    /\ num_threads \in 1..MaxThreads
    /\ futures = [k \in BatchIds |-> [state |-> "pending", result |-> EmptyOutcome("unset")]]
    /\ drained = {}
    /\ retrieved_documents = EmptyDict
    /\ failed_pmids = <<>>
    /\ multiple_pmcids = EmptyDict
    /\ progress = <<>>
    /\ d_pc = "searching"
    /\ checkpoint_interval \in 1..MaxInterval
    /\ exit_code = -1
    /\ disk = EmptyDict
    /\ RLIdle /\ RetryIdle /\ CMIdle /\ FetchIdle /\ LaterIdle

\* download_full_texts.py lines 95-96: search_pubmed returns the identifier list
SearchReturns ==
    /\ d_pc = "searching"
    /\ d_pc' = "draining"
    /\ UNCHANGED <<id_list, batch_size, num_threads, futures, drained,
                   retrieved_documents, failed_pmids, multiple_pmcids, progress,
                   checkpoint_interval, exit_code, disk>>
    /\ UNCHANGED <<rlVars, retryVars, cmVars, fetchVars, laterVars>>

\* download_full_texts.py lines 97-99: search_pubmed raises, main returns 1
SearchFails ==
    /\ d_pc = "searching"
    /\ d_pc' = "search_failed"
    /\ exit_code' = 1
    /\ UNCHANGED <<id_list, batch_size, num_threads, futures, drained,
                   retrieved_documents, failed_pmids, multiple_pmcids, progress,
                   checkpoint_interval, disk>>
    /\ UNCHANGED <<rlVars, retryVars, cmVars, fetchVars, laterVars>>

\* line 146: the batches have been submitted to the executor
Submitted == d_pc \notin {"searching", "search_failed"}

\* a free pool thread takes the next work item off the executor's queue
WorkerStarts(k) ==
    /\ Submitted
    /\ futures[k].state = "pending"
    /\ Cardinality(Running) < num_threads
    /\ \A j \in BatchIds : j < k => futures[j].state # "pending"
    /\ futures' = [futures EXCEPT ![k].state = "running"]
    /\ UNCHANGED <<id_list, batch_size, num_threads, drained, retrieved_documents,
                   failed_pmids, multiple_pmcids, progress, d_pc,
                   checkpoint_interval, exit_code, disk>>
    /\ UNCHANGED <<rlVars, retryVars, cmVars, fetchVars, laterVars>>

\* the worker appends to the shared collections itself
WorkerFinishesMerging(k) ==
    /\ futures[k].state = "running"
    /\ \E resp \in Responses(Batch(k)) :
          LET r == FetchPmcidsFromPmids(Batch(k), resp)
          IN /\ futures' = [futures EXCEPT ![k] =
                    [state |-> IF r.raised THEN "raised" ELSE "done", result |-> r]]
             /\ retrieved_documents' = Update(retrieved_documents, r.documents)
             /\ failed_pmids' = failed_pmids \o r.failed
             /\ multiple_pmcids' = Update(multiple_pmcids, r.multiple)
    /\ UNCHANGED <<id_list, batch_size, num_threads, drained, progress, d_pc,
                   checkpoint_interval, exit_code, disk>>
    /\ UNCHANGED <<rlVars, retryVars, cmVars, fetchVars, laterVars>>

\* the worker's fetch_pmcids_from_pmids(batch) returns or raises
WorkerFinishes(k) ==
    /\ futures[k].state = "running"
    /\ \E resp \in Responses(Batch(k)) :
          LET r == FetchPmcidsFromPmids(Batch(k), resp)
          IN futures' = [futures EXCEPT ![k] =
                 [state |-> IF r.raised THEN "raised" ELSE "done", result |-> r]]
    /\ UNCHANGED <<id_list, batch_size, num_threads, drained, retrieved_documents,
                   failed_pmids, multiple_pmcids, progress, d_pc,
                   checkpoint_interval, exit_code, disk>>
    /\ UNCHANGED <<rlVars, retryVars, cmVars, fetchVars, laterVars>>

\* the running collections of download_batch_parallel
Totals ==
    [documents |-> retrieved_documents, failed |-> failed_pmids,
     multiple |-> multiple_pmcids]

\* the callback is handed the collections as they were before the merge
CallbackThenMerge(totals, r, i) ==
    [totals |-> [documents |-> Update(totals.documents, r.documents),
                 failed    |-> totals.failed \o r.failed,
                 multiple  |-> Update(totals.multiple, r.multiple)],
     call   |-> [batch_idx |-> i, num_batches |-> NumBatches,
                 documents |-> totals.documents, failed |-> totals.failed,
                 multiple |-> totals.multiple]]

\* lines 150-156: the try body for a future that returned; the batch is
\* merged, then progress_callback is called with the merged collections
MergeThenCallback(totals, r, i) ==
    LET merged == [documents |-> Update(totals.documents, r.documents),
                   failed    |-> totals.failed \o r.failed,
                   multiple  |-> Update(totals.multiple, r.multiple)]
    IN [totals |-> merged,
        call   |-> [batch_idx |-> i, num_batches |-> NumBatches,
                    documents |-> merged.documents, failed |-> merged.failed,
                    multiple |-> merged.multiple]]

\* the last batch is not saved unless the interval says so
CheckpointDueNoLast(batch_idx, num_batches) ==
    \/ batch_idx = 0
    \/ (batch_idx + 1) % checkpoint_interval = 0

\* download_full_texts.py lines 106-108: whether this call saves a checkpoint
CheckpointDue(batch_idx, num_batches) ==
    \/ batch_idx = 0
    \/ (batch_idx + 1) % checkpoint_interval = 0
    \/ batch_idx + 1 = num_batches

\* download_full_texts.py lines 106-108: progress_callback, as the directory
\* it leaves
ProgressCallback(dir, call) ==
    IF CheckpointDue(call.batch_idx, call.num_batches)
    THEN SaveCheckpoint(dir, call.batch_idx, call.documents, call.failed, call.multiple)
    ELSE dir

\* the exception of a future leaves the loop and download_batch_parallel
DrainPropagates(k) ==
    /\ d_pc = "draining"
    /\ k \notin drained
    /\ futures[k].state \in {"done", "raised"}
    /\ drained' = drained \cup {k}
    /\ IF futures[k].state = "done"
       THEN LET step == MergeThenCallback(Totals, futures[k].result, Cardinality(drained))
            IN /\ retrieved_documents' = step.totals.documents
               /\ failed_pmids' = step.totals.failed
               /\ multiple_pmcids' = step.totals.multiple
               /\ progress' = Append(progress, step.call)
               /\ disk' = ProgressCallback(disk, step.call)
               /\ d_pc' = d_pc
       ELSE /\ d_pc' = "raised"
            /\ UNCHANGED <<retrieved_documents, failed_pmids, multiple_pmcids,
                           progress, disk>>
    /\ UNCHANGED <<id_list, batch_size, num_threads, futures,
                   checkpoint_interval, exit_code>>
    /\ UNCHANGED <<rlVars, retryVars, cmVars, fetchVars, laterVars>>

\* lines 148-160: as_completed yields a finished future; its result is
\* merged and progress_callback invoked, or its exception is printed
Drain(k) ==
    /\ d_pc = "draining"
    /\ k \notin drained
    /\ futures[k].state \in {"done", "raised"}
    /\ drained' = drained \cup {k}
    /\ IF futures[k].state = "done"
       THEN LET step == MergeThenCallback(Totals, futures[k].result, Cardinality(drained))
            IN /\ retrieved_documents' = step.totals.documents
               /\ failed_pmids' = step.totals.failed
               /\ multiple_pmcids' = step.totals.multiple
               /\ progress' = Append(progress, step.call)
               /\ disk' = ProgressCallback(disk, step.call)
       ELSE UNCHANGED <<retrieved_documents, failed_pmids, multiple_pmcids,
                        progress, disk>>
    /\ UNCHANGED <<id_list, batch_size, num_threads, futures, d_pc,
                   checkpoint_interval, exit_code>>
    /\ UNCHANGED <<rlVars, retryVars, cmVars, fetchVars, laterVars>>

\* line 162: every future has been yielded; the totals are returned
Return ==
    /\ d_pc = "draining"
    /\ drained = BatchIds
    /\ d_pc' = "returned"
    /\ UNCHANGED <<id_list, batch_size, num_threads, futures, drained,
                   retrieved_documents, failed_pmids, multiple_pmcids, progress,
                   checkpoint_interval, exit_code, disk>>
    /\ UNCHANGED <<rlVars, retryVars, cmVars, fetchVars, laterVars>>

\* download_full_texts.py lines 101-103: nothing was found, main returns 0
\* without starting a download
NoPapers ==
    /\ d_pc = "draining"
    /\ id_list = <<>>
    /\ d_pc' = "exited"
    /\ exit_code' = 0
    /\ UNCHANGED <<id_list, batch_size, num_threads, futures, drained,
                   retrieved_documents, failed_pmids, multiple_pmcids, progress,
                   checkpoint_interval, disk>>
    /\ UNCHANGED <<rlVars, retryVars, cmVars, fetchVars, laterVars>>

\* download_full_texts.py lines 121-123: KeyboardInterrupt reaches the main
\* thread while download_batch_parallel runs; main prints and returns 1
Interrupt ==
    /\ d_pc = "draining"
    /\ id_list # <<>>
    /\ d_pc' = "interrupted"
    /\ exit_code' = 1
    /\ UNCHANGED <<id_list, batch_size, num_threads, futures, drained,
                   retrieved_documents, failed_pmids, multiple_pmcids, progress,
                   checkpoint_interval, disk>>
    /\ UNCHANGED <<rlVars, retryVars, cmVars, fetchVars, laterVars>>

\* a run with failures ends with code 1
SaveFinalStrict ==
    /\ d_pc = "returned"
    /\ id_list # <<>>
    /\ disk' = SaveFinalResults(disk, retrieved_documents, failed_pmids, multiple_pmcids)
    /\ d_pc' = "exited"
    /\ exit_code' = IF failed_pmids = <<>> /\ \A k \in BatchIds : futures[k].state = "done"
                    THEN 0 ELSE 1
    /\ UNCHANGED <<id_list, batch_size, num_threads, futures, drained,
                   retrieved_documents, failed_pmids, multiple_pmcids, progress,
                   checkpoint_interval>>
    /\ UNCHANGED <<rlVars, retryVars, cmVars, fetchVars, laterVars>>

\* download_full_texts.py lines 140-142: the returned collections are saved
\* as the final results and main returns 0
SaveFinal ==
    /\ d_pc = "returned"
    /\ id_list # <<>>
    /\ disk' = SaveFinalResults(disk, retrieved_documents, failed_pmids, multiple_pmcids)
    /\ d_pc' = "exited"
    /\ exit_code' = 0
    /\ UNCHANGED <<id_list, batch_size, num_threads, futures, drained,
                   retrieved_documents, failed_pmids, multiple_pmcids, progress,
                   checkpoint_interval>>
    /\ UNCHANGED <<rlVars, retryVars, cmVars, fetchVars, laterVars>>

Next ==
    \/ SearchReturns
    \/ SearchFails
    \/ \E k \in BatchIds : WorkerStarts(k)
    \/ \E k \in BatchIds : WorkerFinishes(k)
    \/ \E k \in BatchIds : Drain(k)
    \/ Return
    \/ NoPapers
    \/ Interrupt
    \/ SaveFinal

Spec == Init /\ [][Next]_vars

(***************************************************************************)
(* The merge loop and the end of the script on longer runs: every worker    *)
(* has finished before the coordinator takes its first future, each batch   *)
(* holds one PMID, and each future either raised or returned its batch as   *)
(* failed.                                                                  *)
(***************************************************************************)
MaxDrainBatches == 3     \* most batches of such a run
MaxDrainInterval == 3    \* largest checkpoint_interval of such a run

\* the answers of the service in these runs: records without a .get, or no handle
DrainResponses(batch) ==
    {resp \in Responses(batch) : resp.shape = "list" \/ ~resp.handle}

\* the finished futures of a batch in these runs
FinishedFutures(batch) ==
    {LET r == FetchPmcidsFromPmids(batch, resp)
     IN [state |-> IF r.raised THEN "raised" ELSE "done", result |-> r] :
        resp \in DrainResponses(batch)}

InitAllFinished ==
    /\ id_list \in UNION {[1..n -> Pmids] : n \in 1..MaxDrainBatches}
    /\ batch_size = 1
    /\ num_threads \in 1..MaxThreads
    /\ futures \in [BatchIds -> UNION {FinishedFutures(Batch(k)) : k \in BatchIds}]
    /\ \A k \in BatchIds : futures[k] \in FinishedFutures(Batch(k))
    /\ drained = {}
    /\ retrieved_documents = EmptyDict
    /\ failed_pmids = <<>>
    /\ multiple_pmcids = EmptyDict
    /\ progress = <<>>
    /\ d_pc = "draining"
    /\ checkpoint_interval \in 1..MaxDrainInterval
    /\ exit_code = -1
    /\ disk = EmptyDict
    /\ RLIdle /\ RetryIdle /\ CMIdle /\ FetchIdle /\ LaterIdle

NextDrain ==
    \/ \E k \in BatchIds : Drain(k)
    \/ Return
    \/ Interrupt
    \/ SaveFinal

SpecDrain == InitAllFinished /\ [][NextDrain]_vars

\* The identifiers an outcome accounts for.
Accounted(docs, failed) == DOMAIN docs \cup Range(failed)

\* C1: when fetch_pmcids_from_pmids returns, every PMID of its batch is a
\* key of the returned documents or an element of the returned failed list.
C1_BatchFullyAccounted ==
    \A k \in BatchIds :
       futures[k].state = "done" =>
          Range(Batch(k)) \subseteq
             Accounted(futures[k].result.documents, futures[k].result.failed)

\* C2: after download_batch_parallel returns, no identifier is both a key of
\* documents and an element of failed, and documents.keys() with failed is
\* exactly the set of identifiers of id_list, also when an identifier occurs
\* more than once and falls into different batches.  Stated for the runs in
\* which no future raised, every batch accounted for all its PMIDs and no
\* batch holds an identifier twice, so that what breaks the partition is the
\* identifier repeated across batches alone.
C2_Partition ==
    (/\ d_pc = "returned"
     /\ \A k \in BatchIds : futures[k].state = "done"
     /\ \A k \in BatchIds : Cardinality(Range(Batch(k))) = Len(Batch(k))
     /\ C1_BatchFullyAccounted)
       => /\ DOMAIN retrieved_documents \cap Range(failed_pmids) = {}
          /\ Accounted(retrieved_documents, failed_pmids) = Range(id_list)

\* C3: when download_batch_parallel returns, every input identifier is in
\* documents or in failed, also when the future of a batch raised.  Stated
\* for the runs in which every batch that did return accounted for all its
\* PMIDs, so that what is missing is missing because of the raised future.
C3_AccountedDespiteRaise ==
    (/\ d_pc = "returned"
     /\ \E k \in BatchIds : futures[k].state = "raised"
     /\ C1_BatchFullyAccounted)
       => Range(id_list) \subseteq Accounted(retrieved_documents, failed_pmids)

\* C10: when fetch_and_parse returns None for the batch, the returned failed
\* list is the batch in input order, documents and multiple are empty and no
\* article fetch was issued.
C10_WholeBatchFailed ==
    \A k \in BatchIds :
       (futures[k].state \in {"done", "raised"} /\ futures[k].result.records = "None") =>
          /\ futures[k].state = "done"
          /\ futures[k].result.failed = Batch(k)
          /\ futures[k].result.documents = EmptyDict
          /\ futures[k].result.multiple = EmptyDict
          /\ futures[k].result.fetched = <<>>

\* C10 witness: a batch of two different PMIDs whose metadata call failed.
C10_Witness ==
    \E k \in BatchIds :
       /\ futures[k].state = "done"
       /\ futures[k].result.records = "None"
       /\ Len(Batch(k)) = 2
       /\ Batch(k)[1] # Batch(k)[2]
       /\ futures[k].result.failed = Batch(k)

\* C11: in every outcome set fetch_pmcids_from_pmids returns and in the one
\* download_batch_parallel returns, every key of multiple is a key of
\* documents and is not an element of failed.
C11_MultipleOnlyForDocuments ==
    /\ \A k \in BatchIds :
          futures[k].state = "done" =>
             LET r == futures[k].result
             IN /\ DOMAIN r.multiple \subseteq DOMAIN r.documents
                /\ DOMAIN r.multiple \cap Range(r.failed) = {}
    /\ d_pc = "returned" =>
          /\ DOMAIN multiple_pmcids \subseteq DOMAIN retrieved_documents
          /\ DOMAIN multiple_pmcids \cap Range(failed_pmids) = {}

(***************************************************************************)
(* Claims about a single call of fetch_pmcids_from_pmids (SpecFetch).       *)
(***************************************************************************)
\* the article record the next iteration processes
Current == Articles[f_i + 1]
\* a step of the loop of line 84 over a record whose PMID and ID list can be read
Processes == f_pc = "looping" /\ f_i' = f_i + 1
Readable(a) == a.PMID # NoKey /\ a.PubmedData
\* the positions of the secondary IDs with the 'PMC' prefix
PmcPositions(l) == {k \in DOMAIN l : l[k] \in {"PMC1", "PMC2"}}
\* the j-th of these positions
NthPmcPosition(l, j) ==
    CHOOSE k \in PmcPositions(l) : Cardinality({m \in PmcPositions(l) : m < k}) = j - 1
\* c holds the 'PMC' IDs of l, all of them, in the order of l
InRecordOrder(c, l) ==
    /\ Len(c) = Cardinality(PmcPositions(l))
    /\ \A j \in 1..Len(c) : c[j] = l[NthPmcPosition(l, j)]

\* C12: a record with more than one 'PMC' ID puts all candidates, in record
\* order, in the multiple map under its PMID, causes exactly one fetch, of
\* the first candidate, and a document stored for it carries the first
\* candidate as PMCID; a record with exactly one candidate leaves the
\* multiple map as it was.
C12_FirstCandidate ==
    [][(Processes /\ Readable(Current)) =>
         LET l == Current.ArticleIdList
             pmid == Current.PMID
             first == l[NthPmcPosition(l, 1)]
         IN /\ Cardinality(PmcPositions(l)) > 1 =>
                 /\ pmid \in DOMAIN f_acc'.multiple
                 /\ InRecordOrder(f_acc'.multiple[pmid], l)
                 /\ f_acc'.fetched = Append(f_acc.fetched, first)
                 /\ Current.download = "doc" =>
                       /\ pmid \in DOMAIN f_acc'.documents
                       /\ f_acc'.documents[pmid].PMCID = first
                       /\ f_acc'.documents[pmid].pmcid = StripPMC(first)
            /\ Cardinality(PmcPositions(l)) = 1 =>
                 /\ f_acc'.multiple = f_acc.multiple
                 /\ f_acc'.fetched = Append(f_acc.fetched, first)]_vars

\* a call has stored the document of a record that lists 'PMC2' before 'PMC1'
C12_Witness ==
    /\ f_pc = "returned"
    /\ \E pmid \in DOMAIN f_acc.multiple :
          /\ f_acc.multiple[pmid] = <<"PMC2", "PMC1">>
          /\ pmid \in DOMAIN f_acc.documents
          /\ f_acc.documents[pmid].PMCID = "PMC2"
    /\ f_acc.fetched = <<"PMC2">>

\* the scenario of PMIDs ['1', '2']: '1' has one candidate whose download
\* gives a document, '2' has a record without any 'PMC' ID
ScenarioOneAndTwo ==
    /\ f_batch = <<"1", "2">>
    /\ FetchAndParse(f_resp).shape = "dict"
    /\ Len(Articles) = 2
    /\ Articles[1].PMID = "1" /\ Readable(Articles[1])
    /\ Cardinality(PmcPositions(Articles[1].ArticleIdList)) = 1
    /\ Articles[1].download = "doc"
    /\ Articles[2].PMID = "2" /\ Readable(Articles[2])
    /\ PmcPositions(Articles[2].ArticleIdList) = {}

\* C13: a record without a 'PMC' ID appends its PMID to failed, leaves
\* documents and multiple as they were and causes no fetch; the call for
\* ['1', '2'] of the scenario returns documents = {'1': doc}, failed = ['2']
\* and an empty multiple map.
C13_NoPmcidFails ==
    /\ [][(Processes /\ Readable(Current) /\ PmcPositions(Current.ArticleIdList) = {}) =>
            /\ f_acc'.failed = Append(f_acc.failed, Current.PMID)
            /\ f_acc'.documents = f_acc.documents
            /\ f_acc'.multiple = f_acc.multiple
            /\ f_acc'.fetched = f_acc.fetched]_vars
    /\ []((f_pc = "returned" /\ ScenarioOneAndTwo) =>
            /\ DOMAIN f_acc.documents = {"1"}
            /\ f_acc.documents["1"].PMCID
                  = Articles[1].ArticleIdList[NthPmcPosition(Articles[1].ArticleIdList, 1)]
            /\ f_acc.failed = <<"2">>
            /\ DOMAIN f_acc.multiple = {}
            /\ ~f_acc.raised)

\* the call of the scenario has returned
C13_Witness == f_pc = "returned" /\ ScenarioOneAndTwo /\ f_acc.failed = <<"2">>

\* C14: an exception raised while one article record is processed is caught,
\* the identifier of that article is added to failed, the later records are
\* still processed and the call returns.
C14_RaisingArticleFails ==
    [][(Processes /\ ~Readable(Current)) =>
         /\ Len(f_acc'.failed) = Len(f_acc.failed) + 1
         /\ f_pc' = "looping"]_vars

(***************************************************************************)
(* Claims about the merge loop, the checkpoints and the script (Spec).      *)
(***************************************************************************)
\* the loop of line 148 takes future k, which returned / which raised
DrainsDone(k) ==
    d_pc = "draining" /\ futures[k].state = "done" /\ drained' = drained \cup {k}
    /\ k \notin drained
DrainsRaised(k) ==
    d_pc = "draining" /\ futures[k].state = "raised" /\ drained' = drained \cup {k}
    /\ k \notin drained
\* the futures taken so far that returned
Merged == {k \in drained : futures[k].state = "done"}

\* C15 as stated: progress_callback is invoked once per batch, with the
\* indices 0, 1, ..., total_batches-1 in completion order, total_batches
\* times in every run.
C15_CallbackPerBatch ==
    d_pc = "returned" =>
       /\ Len(progress) = NumBatches
       /\ \A j \in 1..Len(progress) :
             progress[j].batch_idx = j - 1 /\ progress[j].num_batches = NumBatches

\* C15 amended: a batch whose future returned is merged and then reported by
\* exactly one progress_callback call, which sees the merged collections,
\* total_batches, and as batch_index the number of futures taken before it
\* (raised ones included); a batch whose future raised is not reported.
C15_CallbackPerReturnedBatch ==
    /\ [][\A k \in BatchIds :
            /\ DrainsDone(k) =>
                 /\ Len(progress') = Len(progress) + 1
                 /\ SubSeq(progress', 1, Len(progress)) = progress
                 /\ LET call == progress'[Len(progress')]
                        r == futures[k].result
                    IN /\ call.batch_idx = Cardinality(drained)
                       /\ call.num_batches = NumBatches
                       /\ call.documents = retrieved_documents'
                       /\ call.failed = failed_pmids'
                       /\ call.multiple = multiple_pmcids'
                       /\ DOMAIN r.documents \subseteq DOMAIN call.documents
                       /\ DOMAIN r.multiple \subseteq DOMAIN call.multiple
                       /\ call.failed = failed_pmids \o r.failed
            /\ DrainsRaised(k) => progress' = progress]_vars
    /\ [](/\ Len(progress) = Cardinality(Merged)
          /\ \A j \in 1..Len(progress) :
                /\ progress[j].batch_idx \in 0..(NumBatches - 1)
                /\ progress[j].batch_idx >= j - 1
                /\ \A h \in 1..(j - 1) : progress[h].batch_idx < progress[j].batch_idx)

\* two batches, the first future taken raised, the second was merged and
\* reported with index 1
C15_Witness ==
    /\ d_pc = "returned"
    /\ NumBatches = 2
    /\ Len(progress) = 1
    /\ progress[1].batch_idx = 1
    /\ progress[1].num_batches = 2
    /\ DOMAIN progress[1].documents # {}

RECURSIVE SumFailed(_)
\* the number of failed entries the futures of set K returned
SumFailed(K) ==
    IF K = {}
    THEN 0
    ELSE LET k == CHOOSE x \in K : TRUE
         IN Len(futures[k].result.failed) + SumFailed(K \ {k})

\* C16: a future that raised leaves the three running collections as they
\* were and the loop running; what download_batch_parallel returns holds the
\* results of every future that returned, and only those.
C16_RaisedBatchContributesNothing ==
    /\ [][\A k \in BatchIds :
            DrainsRaised(k) =>
               /\ retrieved_documents' = retrieved_documents
               /\ failed_pmids' = failed_pmids
               /\ multiple_pmcids' = multiple_pmcids
               /\ d_pc' = "draining"]_vars
    /\ [](d_pc = "returned" =>
            /\ DOMAIN retrieved_documents
                  = UNION {DOMAIN futures[k].result.documents : k \in Merged}
            /\ Range(failed_pmids) = UNION {Range(futures[k].result.failed) : k \in Merged}
            /\ Len(failed_pmids) = SumFailed(Merged)
            /\ DOMAIN multiple_pmcids
                  = UNION {DOMAIN futures[k].result.multiple : k \in Merged}
            /\ Merged = {k \in BatchIds : futures[k].state = "done"})

\* download_batch_parallel has returned the document of one batch although
\* the future of the other batch raised
C16_Witness ==
    /\ d_pc = "returned"
    /\ \E k \in BatchIds : futures[k].state = "raised"
    /\ \E k \in BatchIds :
          /\ futures[k].state = "done"
          /\ DOMAIN futures[k].result.documents # {}
          /\ DOMAIN retrieved_documents = DOMAIN futures[k].result.documents

\* the indices of the checkpoints that are in the directory
CheckpointIndices ==
    {i \in 0..Len(id_list) : CheckpointFile("documents", i) \in DOMAIN disk}

\* C17: of two checkpoints written in one run, the later holds every
\* document key, every failed entry and every multiple key of the earlier.
C17_CheckpointsGrow ==
    \A i, j \in CheckpointIndices :
       i < j =>
          LET a == LoadCheckpoint(disk, i)
              b == LoadCheckpoint(disk, j)
          IN /\ DOMAIN a.documents \subseteq DOMAIN b.documents
             /\ Len(a.failed) <= Len(b.failed)
             /\ SubSeq(b.failed, 1, Len(a.failed)) = a.failed
             /\ DOMAIN a.multiple \subseteq DOMAIN b.multiple

\* checkpoint 0 holds one document, checkpoint 1 holds it and one more
C17_Witness ==
    /\ {0, 1} \subseteq CheckpointIndices
    /\ LET a == LoadCheckpoint(disk, 0)
           b == LoadCheckpoint(disk, 1)
       IN /\ DOMAIN a.documents # {}
          /\ DOMAIN a.documents # DOMAIN b.documents

\* C20: when the run is interrupted after batches were merged, main exits
\* with code 1 and the final-result files hold what was accumulated.
C20_InterruptSavesFinal ==
    (exit_code = 1 /\ Merged # {}) =>
       /\ FinalFile("documents") \in DOMAIN disk
       /\ FinalFile("failed_pmids") \in DOMAIN disk
       /\ FinalFile("multiple_pmcids") \in DOMAIN disk
       /\ Unpickle(disk[FinalFile("documents")]) = retrieved_documents
       /\ Unpickle(disk[FinalFile("failed_pmids")]) = failed_pmids
       /\ Unpickle(disk[FinalFile("multiple_pmcids")]) = multiple_pmcids

(***************************************************************************)
(* Claims about the CheckpointManager (SpecCheckpoint).                     *)
(***************************************************************************)
\* what the last write of file f stored, if it was written since the start
LastWritten(f) ==
    IF f.suffix = "final" THEN cm_final ELSE cm_saved[f.index]

\* C18: save_checkpoint(k, ...) writes the three files of index k and no
\* other: every file holds what the last save of its own index (or the last
\* final save, for a final file) stored, or, if there was none, what it held
\* at the start; no file is deleted.
C18_OnlyOwnIndexWritten ==
    /\ DOMAIN disk0 \subseteq DOMAIN disk
    /\ \A f \in DOMAIN disk :
          IF LastWritten(f).saved
          THEN disk[f] = Pickle(Collection(LastWritten(f).data, f.name))
          ELSE f \in DOMAIN disk0 /\ disk[f] = disk0[f]
    /\ \A k \in 0..MaxIndex, name \in CheckpointNames :
          cm_saved[k].saved =>
             [name |-> name, suffix |-> "checkpoint", index |-> k] \in DOMAIN disk

\* checkpoint 0 was saved, then checkpoint 1 with more documents, on top of
\* final files of an earlier run
C18_Witness ==
    /\ cm_saved[0].saved /\ cm_saved[1].saved
    /\ DOMAIN cm_saved[0].data.documents = {"1"}
    /\ DOMAIN cm_saved[1].data.documents = {"1", "2"}
    /\ ~cm_final.saved
    /\ FinalFile("documents") \in DOMAIN disk
    /\ Unpickle(disk[CheckpointFile("documents", 0)]) = cm_saved[0].data.documents

\* what load_checkpoint is to return for one file of an index never saved
\* since the start: the earlier run's content, or the empty container
Leftover(name, batch_index, empty) ==
    IF [name |-> name, suffix |-> "checkpoint", index |-> batch_index] \in DOMAIN disk0
    THEN Collection(StaleSet, name)
    ELSE empty

\* C19: load_checkpoint(k) returns the three collections last saved at index
\* k; for an index without files it returns ({}, [], {}); when only some of
\* the files exist, the missing ones are replaced by the empty container.
C19_LoadReturnsLastSaved ==
    [][cm_loaded' # cm_loaded =>
         LET k == cm_loaded'.batch_index
             r == cm_loaded'.result
         IN IF cm_saved[k].saved
            THEN r = cm_saved[k].data
            ELSE /\ r.documents = Leftover("documents", k, EmptyDict)
                 /\ r.failed = Leftover("failed_pmids", k, <<>>)
                 /\ r.multiple = Leftover("multiple_pmcids", k, EmptyDict)]_vars

\* a load of index 0, of which only the failed_pmids file exists, and never
\* saved since, returned the file's list and two empty dicts
C19_Witness ==
    /\ cm_loaded.batch_index = 0
    /\ ~cm_saved[0].saved
    /\ CheckpointFile("failed_pmids", 0) \in DOMAIN disk
    /\ CheckpointFile("documents", 0) \notin DOMAIN disk
    /\ CheckpointFile("multiple_pmcids", 0) \notin DOMAIN disk
    /\ cm_loaded.result.failed = <<"1">>
    /\ DOMAIN cm_loaded.result.documents = {}
    /\ DOMAIN cm_loaded.result.multiple = {}

(***************************************************************************)
(* Claims about the exit code, the writers of the running collections, the  *)
(* batches and the checkpoint schedule (Spec).                              *)
(***************************************************************************)
\* C21: main ends with 0 when the run completes, whatever failed on the way
\* and also when nothing was found, and with 1 when the search fails or the
\* run is interrupted; until then it has not ended.
C21_ExitCode ==
    /\ d_pc = "exited" => exit_code = 0
    /\ d_pc \in {"search_failed", "interrupted"} => exit_code = 1
    /\ d_pc \in {"searching", "draining", "returned"} => exit_code = -1
    /\ exit_code = 0 => d_pc = "exited" /\ drained = BatchIds

\* a run of two batches, one whose future raised and one whose only PMID
\* failed, has ended with code 0
C21_Witness ==
    /\ d_pc = "exited"
    /\ exit_code = 0
    /\ NumBatches = 2
    /\ \E k \in BatchIds : futures[k].state = "raised"
    /\ failed_pmids # <<>>
    /\ DOMAIN retrieved_documents = {}

\* C22: the running collections change only in a step of the coordinator
\* that takes a returned future; a worker step changes its future only, and
\* a checkpoint written by the callback holds the running collections as
\* the merge left them.
C22_SingleWriter ==
    [][/\ Totals' # Totals => \E k \in BatchIds : DrainsDone(k)
       /\ futures' # futures => Totals' = Totals
       /\ \A k \in BatchIds :
             (DrainsDone(k) /\ CheckpointDue(Cardinality(drained), NumBatches)) =>
                 /\ LoadCheckpoint(disk', Cardinality(drained)) = Totals'
                 /\ Totals' = MergeThenCallback(Totals, futures[k].result,
                                                Cardinality(drained)).totals]_vars

\* a worker has returned a document that the coordinator has not merged yet,
\* after another batch was merged and saved as checkpoint 0
C22_Witness ==
    /\ d_pc = "draining"
    /\ \E k \in BatchIds \ drained :
          /\ futures[k].state = "done"
          /\ DOMAIN futures[k].result.documents # {}
          /\ ~(DOMAIN futures[k].result.documents \subseteq DOMAIN retrieved_documents)
    /\ Cardinality(drained) = 1
    /\ CheckpointFile("documents", 0) \in DOMAIN disk
    /\ LoadCheckpoint(disk, 0) = Totals
    /\ DOMAIN retrieved_documents # {}

RECURSIVE ConcatBatches(_)
\* the first n batches, one after the other
ConcatBatches(n) == IF n = 0 THEN <<>> ELSE ConcatBatches(n - 1) \o Batch(n - 1)

\* C28: the batches submitted are consecutive slices of id_list: one after
\* the other they give id_list, all but the last hold batch_size
\* identifiers, the last holds 1 to batch_size, there are
\* ceil(len(id_list) / batch_size) of them, and none for an empty list,
\* for which the empty outcome set is returned.
C28_PositionalBatches ==
    d_pc \in {"submitted", "returned"} =>
       LET n == Cardinality(DOMAIN futures)
       IN /\ DOMAIN futures = 0..(n - 1)
          /\ ConcatBatches(n) = id_list
          /\ \A k \in 0..(n - 2) : Len(Batch(k)) = batch_size
          /\ n > 0 => Len(Batch(n - 1)) \in 1..batch_size
          /\ n * batch_size >= Len(id_list)
          /\ n > 0 => (n - 1) * batch_size < Len(id_list)
          /\ id_list = <<>> => n = 0
          /\ d_pc = "returned" =>
                /\ id_list = <<>>
                /\ DOMAIN retrieved_documents = {}
                /\ failed_pmids = <<>>
                /\ DOMAIN multiple_pmcids = {}

\* three identifiers in batches of two: a full batch and a last batch of one
C28_Witness ==
    /\ d_pc = "submitted"
    /\ id_list = <<"1", "2", "1">>
    /\ batch_size = 2
    /\ DOMAIN futures = {0, 1}
    /\ Batch(0) = <<"1", "2">>
    /\ Batch(1) = <<"1">>

(***************************************************************************)
(* Claims about the checkpoint schedule on longer runs (SpecDrain).         *)
(***************************************************************************)
\* what the final-result files hold
FinalResults(dir) ==
    [documents |-> Unpickle(dir[FinalFile("documents")]),
     failed    |-> Unpickle(dir[FinalFile("failed_pmids")]),
     multiple  |-> Unpickle(dir[FinalFile("multiple_pmcids")])]

\* C29 as stated: once download_batch_parallel has returned, the checkpoint
\* with index (number of batches - 1) is in the directory, and it equals the
\* final results once these are saved.
C29_LastCheckpointIsFinal ==
    /\ d_pc \in {"returned", "exited"} => (NumBatches - 1) \in CheckpointIndices
    /\ d_pc = "exited" => LoadCheckpoint(disk, NumBatches - 1) = FinalResults(disk)

\* C29 amended: the future taken at position i, if it returned, writes
\* checkpoint i exactly when i = 0, i + 1 is a multiple of
\* checkpoint_interval or i + 1 is the number of batches, and nothing
\* otherwise; a future that raised writes nothing.  So when
\* download_batch_parallel has returned, checkpoint (number of batches - 1)
\* exists exactly if the future taken last returned, and then it equals the
\* final results.
C29_CheckpointSchedule ==
    /\ [][\A k \in BatchIds :
            LET i == Cardinality(drained)
            IN /\ DrainsDone(k) =>
                    IF i = 0 \/ (i + 1) % checkpoint_interval = 0 \/ i + 1 = NumBatches
                    THEN /\ CheckpointIndices' = CheckpointIndices \cup {i}
                         /\ LoadCheckpoint(disk', i) = Totals'
                         /\ \A j \in CheckpointIndices \ {i} :
                               LoadCheckpoint(disk', j) = LoadCheckpoint(disk, j)
                    ELSE disk' = disk
               /\ DrainsRaised(k) => disk' = disk]_vars
    /\ [](d_pc \in {"returned", "exited"} =>
            /\ (NumBatches - 1) \in CheckpointIndices
                  <=> (progress # <<>> /\ progress[Len(progress)].batch_idx = NumBatches - 1)
            /\ (NumBatches - 1) \in CheckpointIndices =>
                  /\ LoadCheckpoint(disk, NumBatches - 1) = Totals
                  /\ d_pc = "exited" => LoadCheckpoint(disk, NumBatches - 1) = FinalResults(disk))

\* three batches with checkpoint_interval 3, all returned: checkpoints 0 and
\* 2 were written, position 1 wrote none, and checkpoint 2 equals the final
\* results
C29_Witness ==
    /\ d_pc = "exited"
    /\ NumBatches = 3
    /\ checkpoint_interval = 3
    /\ Len(progress) = 3
    /\ CheckpointIndices = {0, 2}
    /\ LoadCheckpoint(disk, 2) = FinalResults(disk)
    /\ Len(failed_pmids) = 3

(***************************************************************************)
(* Claims about parse_pmc_xml (SpecParser).                                 *)
(***************************************************************************)
FixedFields ==
    {"Article Type", "DOI", "PubMed Link", "PMC Link", "Journal", "Title", "Year Published"}

\* C23: the metadata of every document parse_pmc_xml returns has every one
\* of the fixed field names as a key.
C23_AllFieldsPresent ==
    (x_pc # "called" /\ x_doc # NoParse) => FixedFields \subseteq DOMAIN x_doc.metadata

RECURSIVE HasArticle(_)
\* the element is an article or has one somewhere below it
HasArticle(e) ==
    e.tag = "article" \/ \E k \in DOMAIN e.kids : HasArticle(e.kids[k])
\* the text is XML with an article element in it
Parseable(xml_content) ==
    /\ xml_content.form = "bytes" => xml_content.decodes
    /\ xml_content.wellformed
    /\ HasArticle(xml_content.root)

\* C24: parse_pmc_xml returns None for text that is not well-formed XML and
\* for XML without an article element, and a document otherwise; the
\* caller then appends the PMID to failed and stores no document.
C24_BadInputGivesNone ==
    /\ x_pc # "called" => (x_doc = NoParse <=> ~Parseable(x_content))
    /\ (x_pc = "recorded" /\ ~Parseable(x_content)) =>
          /\ x_acc.failed = <<"1">>
          /\ DOMAIN x_acc.documents = {}
          /\ ~x_acc.raised
    /\ (x_pc = "recorded" /\ Parseable(x_content)) =>
          /\ x_acc.failed = <<>>
          /\ DOMAIN x_acc.documents = {"1"}

\* the caller has recorded as failed a PMID whose XML held a pmc-articleset
\* without an article
C24_Witness ==
    /\ x_pc = "recorded"
    /\ x_content.wellformed /\ x_content.decodes
    /\ x_content.root.tag = "response"
    /\ FindDescendant(x_content.root, "pmc-articleset") # NoElement
    /\ x_doc = NoParse
    /\ x_acc.failed = <<"1">>

(***************************************************************************)
(* Claims about the per-DOI collector (SpecCollector).                      *)
(***************************************************************************)
\* C25: when the run is interrupted, every DOI whose paper data was fetched
\* and written before the interrupt is in the persisted cache.
C25_InterruptKeepsProgress ==
    c_pc = "interrupted" => c_saved \subseteq cache_file

\* the DOIs of the list that the cache of the run's start does not hold
NewDois == {NormalizeDoi(dois[k]) : k \in DOMAIN dois} \ c_cache0

C27_SubmittedOnce ==
    /\ \A i, j \in DOMAIN c_futures :
          NormalizeDoi(c_futures[i].doi) = NormalizeDoi(c_futures[j].doi) => i = j
    /\ \A d \in DOMAIN c_fetched : c_fetched[d] <= 1

(***************************************************************************)
(* Claims about the worker pool over the rate limiter (FairSpecPool).       *)
(***************************************************************************)
\* the function has returned: every batch was taken from as_completed, no
\* worker is left waiting for the semaphore or anywhere else inside a
\* batch, and every permit is back
PoolDone ==
    /\ pool_pc = "returned"
    /\ pool_drained = DOMAIN pool_future
    /\ \A k \in DOMAIN pool_future : pool_future[k] = "done"
    /\ \A t \in DOMAIN pool_thread : pool_thread[t] = IdleThread
    /\ pool_sem = pool_slots

\* C30: when every remote call returns or raises, download_batch_parallel
\* terminates for every num_threads >= 1 and every limiter size N >= 1, also
\* with more threads than permits: no worker waits forever for the
\* semaphore, also when calls raise and are retried, every submitted batch
\* is eventually drained and the function returns.
C30_Terminates == <>PoolDone

\* with more threads than permits, a worker whose call raised waits for the
\* semaphore to try again while another worker holds the only permit
C30_Witness ==
    /\ pool_threads > pool_slots
    /\ pool_sem = 0
    /\ \E t \in DOMAIN pool_thread :
          /\ pool_thread[t].pos = "waiting"
          /\ pool_thread[t].attempt > 0

====
